---- MODULE Spec2Model ----
(***************************************************************************)
(* Chat and notification services of snacc over a Firestore document       *)
(* store.                                                                  *)
(*                                                                         *)
(* Strings that the code sorts, joins or compares (user ids, document ids) *)
(* are sequences of UTF-16 code units; free text whose only relevant       *)
(* feature is its length is a sequence over a one-letter alphabet.         *)
(* Every awaited store call is a step of its own where the code makes      *)
(* more than one, and may fail (a StoreError) by the choice of `ok`.        *)
(***************************************************************************)
EXTENDS Integers, Sequences, FiniteSets, TLC

\* ------------------------------------------------------------------ bounds
MaxTime == 2        \* Date.now() ranges over 1..MaxTime
MaxMsgs == 2        \* message document ids handed out by doc(collection())
MaxPending == 2     \* calls suspended at an await at the same time
MaxNotifs == 2      \* notification ids handed out by doc(collection())
MaxRooms == 1       \* group room ids handed out by doc(collection())
MaxSubs == 2        \* listeners registered
MaxQueue == 2       \* snapshots a listener has not yet been called with

\* ------------------------------------------------------------- input sets
U1 == <<97>>        \* "a"
U2 == <<98>>        \* "b"
Users == {U1, U2}
\* The (userId1, userId2) arguments createDirectChat is called with.
DirectInputs == {<<U1, U2>>, <<U2, U1>>}
\* createDirectChat arguments whose ids hold the separator: ("a", "b_c") and
\* ("a_b", "c"), in both orders.
SeparatorInputs == {<<U1, <<98, 95, 99>>>>, <<<<98, 95, 99>>, U1>>, <<<<97, 95, 98>>, <<99>>>>, <<<<99>>, <<97, 95, 98>>>>}
Texts == {"hi"}
Titles == {"cat"}
Names == {"nick"}
\* Arguments of the notification constructors; an id may be the empty string.
NotifUsers == {<<>>, U1, U2}
MemeIds == {"", "m1"}
Icons == {"star"}

\* --------------------------------------------------------------- helpers
Range(s) == {s[i] : i \in 1..Len(s)}

Put(f, k, v) == [x \in (DOMAIN f) \cup {k} |-> IF x = k THEN v ELSE f[x]]

\* String order of Array.prototype.sort() without a comparator: by code unit.
RECURSIVE StrLess(_, _)
StrLess(s, t) ==
  IF s = <<>> THEN t # <<>>
  ELSE IF t = <<>> THEN FALSE
  ELSE IF Head(s) # Head(t) THEN Head(s) < Head(t)
  ELSE StrLess(Tail(s), Tail(t))

\* [userId1, userId2].sort()
SortPair(x, y) == IF StrLess(y, x) THEN <<y, x>> ELSE <<x, y>>

\* .join('_')
JoinPair(p) == p[1] \o <<95>> \o p[2]

\* "direct_"
DirectPrefix == <<100, 105, 114, 101, 99, 116, 95>>

\* A buggy derivation that joins the ids in argument order.
DirectChatId_Unsorted(userId1, userId2) == DirectPrefix \o JoinPair(<<userId1, userId2>>)

\* `direct_${[userId1, userId2].sort().join('_')}`
DirectChatId(userId1, userId2) == DirectPrefix \o JoinPair(SortPair(userId1, userId2))

\* Ids that doc(collection(...)) generates: fresh, alphanumeric.
AutoId(n) == <<65, 48 + n>>

DirectIds == {DirectChatId(p[1], p[2]) : p \in DirectInputs}
ChatIds == DirectIds
MessageIds == {AutoId(n) : n \in 1..MaxMsgs}

\* arrayUnion that appends without looking.
ArrayUnion_Dup(arr, x) == Append(arr, x)

\* arrayUnion(x): adds x unless the array already holds it.
ArrayUnion(arr, x) == IF x \in Range(arr) THEN arr ELSE Append(arr, x)

VARIABLES
  now,            \* Date.now()
  rooms,          \* collection chatRooms: id -> document
  messages,       \* collection chatMessages: id -> document
  nextMsg,        \* next fresh message id
  nextRoom,       \* next fresh id of a group room
  pendingCreate,  \* createDirectChat calls between getDoc and setDoc
  pendingSend,    \* sendMessage / sendMemeMessage calls before batch.commit
  pendingMark,    \* markChatAsRead calls between getDocs and batch.commit
  returned,       \* what createDirectChat calls have returned: [userId1, userId2, id]
  raced,          \* a createDirectChat wrote a room that was stored after its lookup
  reply,          \* the value the read call that has just returned gave its caller
  watch,          \* which of the history variables are recorded
  subscriptions,  \* the listeners registered by subscribeToMessages / subscribeToUserChats
  modal,          \* the state of the ChatModal component and of its running handler
  notifications,  \* collection notifications: id -> document
  nextNotif,      \* next fresh notification id
  notified,       \* the notification call that has just returned, and what it stored
  pendingBatch    \* notification calls between getDocs and batch.commit

chatVars == <<now, rooms, messages, nextMsg, nextRoom, pendingCreate,
              pendingSend, pendingMark, returned, raced, reply, watch,
              subscriptions, modal>>
notifVars == <<notifications, nextNotif, notified, pendingBatch>>
vars == <<chatVars, notifVars>>

NoId == <<>>
NoLastMessage == [present |-> FALSE, text |-> "", senderId |-> NoId,
                  timestamp |-> 0, type |-> ""]
NoMeme == [present |-> FALSE, title |-> ""]
NoName == [present |-> FALSE, value |-> ""]

NoReply == [op |-> "", userId |-> NoId, chatId |-> NoId, ok |-> TRUE,
            num |-> 0, threw |-> FALSE, list |-> <<>>]
NoCall == [op |-> "", fromUserId |-> NoId, userId |-> NoId, stored |-> {},
           removed |-> {}, threw |-> FALSE, failed |-> FALSE, texts |-> <<>>]

\* ChatModal as mounted: the useState defaults, no handler running. pc is
\* the await the handler is suspended at, closure what it captured when it
\* was called, pending the object its service call has built; toast and
\* called are history: the last toast, the create call the handler made.
\* subscription is the listener whose unsubscribe the cleanup of the
\* currentChat effect holds (0: the effect has subscribed to nothing).
NoModal ==
  [step |-> "select", selectedUsers |-> <<>>, groupName |-> <<>>,
   isGroup |-> FALSE, currentChat |-> NoId, loading |-> FALSE,
   memeData |-> FALSE, pc |-> "idle",
   closure |-> [currentChat |-> NoId, memeData |-> FALSE, userId |-> NoId],
   pending |-> [id |-> NoId], toast |-> "", called |-> "", subscription |-> 0]

NumPending ==
  Cardinality(pendingCreate) + Cardinality(pendingSend) + Cardinality(pendingMark)

\* The state after construction: empty collections, no call in flight.
\* returned and raced are history variables about createDirectChat; they are
\* recorded when watch = "create" and stay as they are otherwise.
InitWatching(w) ==
  /\ watch = w
  /\ now = 1
  /\ rooms = <<>>
  /\ messages = <<>>
  /\ nextMsg = 1
  /\ nextRoom = 1
  /\ pendingCreate = {}
  /\ pendingSend = {}
  /\ pendingMark = {}
  /\ returned = {}
  /\ raced = FALSE
  /\ reply = NoReply
  /\ subscriptions = <<>>
  /\ modal = NoModal
  /\ notifications = <<>>
  /\ nextNotif = 1
  /\ notified = NoCall
  /\ pendingBatch = {}

Init == InitWatching("none")
InitCreate == InitWatching("create")
InitReads == InitWatching("reads")
InitNotif == InitWatching("notif")
InitTexts == InitWatching("texts")
InitErrors == InitWatching("errors")
InitMembers == InitWatching("members")

\* History: a writing call has ended; failed says that a store call of it
\* failed, threw that it threw to its caller. Recorded when watch = "errors".
Outcome(failed, threw) ==
  IF watch = "errors"
  THEN [NoReply EXCEPT !.op = "write", !.ok = ~failed, !.threw = threw]
  ELSE NoReply

\* History: addParticipant, removeParticipant, sendMessage or sendMemeMessage
\* has ended; recorded with its arguments when watch = "members".
Changed(op, chatId, userId, failed, threw) ==
  IF watch = "members"
  THEN [NoReply EXCEPT !.op = op, !.chatId = chatId, !.userId = userId,
                       !.ok = ~failed, !.threw = threw]
  ELSE Outcome(failed, threw)

\* A test that finds every string present.
Falsy_Never(s) == FALSE

\* !s for a string s: s is the empty string.
Falsy(s) == Len(s) = 0

\* A catch block that lets the value through.
Masked_Leaky(ok, value, default) == value

\* try { ... return value } catch (error) { console.error(...); return default }
Masked(ok, value, default) == IF ok THEN value ELSE default

\* ------------------------------------------------------------ queries
MessagesOfChat(msgs, chatId) == {id \in DOMAIN msgs : msgs[id].chatId = chatId}

\* The orders a query may give the documents ids in: every arrangement of
\* them in a sequence.
Orderings(ids) ==
  {f \in [1..Cardinality(ids) -> ids] :
     \A i, j \in 1..Cardinality(ids) : i # j => f[i] # f[j]}

\* A reverse that leaves the list as it is.
Reverse_Not(s) == s

\* s.reverse()
Reverse(s) == [i \in 1..Len(s) |-> s[Len(s) + 1 - i]]

\* limit(n) on the documents of a query
Limit(s, n) == SubSeq(s, 1, IF n < Len(s) THEN n ELSE Len(s))

\* A query of the rooms of a user that does not look at isActive.
UserChatsQuery_All(rs, userId) ==
  LET ids == {c \in DOMAIN rs : userId \in Range(rs[c].participants)}
  IN  {[i \in 1..Cardinality(ids) |-> rs[f[i]]] : f \in Orderings(ids)}

\* A query of the active rooms of a user in any order.
UserChatsQuery_Unordered(rs, userId) ==
  LET ids == {c \in DOMAIN rs : userId \in Range(rs[c].participants) /\ rs[c].isActive}
  IN  {[i \in 1..Cardinality(ids) |-> rs[f[i]]] : f \in Orderings(ids)}

\* The results the query of getUserChats may have: the rooms it selects,
\* orderBy('lastActivity', 'desc'), rooms of equal lastActivity in any order.
UserChatsQuery(rs, userId) ==
  LET ids == {c \in DOMAIN rs : userId \in Range(rs[c].participants) /\ rs[c].isActive}
  IN  {[i \in 1..Cardinality(ids) |-> rs[f[i]]] :
         f \in {g \in Orderings(ids) :
                  \A i \in 1..(Cardinality(ids) - 1) :
                    rs[g[i]].lastActivity >= rs[g[i + 1]].lastActivity}}

\* limit(100) of the query of subscribeToMessages
SubscriptionLimit == 100

\* orderBy('timestamp', 'asc') on the documents ids: every sequence of them
\* in which no document comes before one of a smaller timestamp. Documents
\* of one timestamp come in any order; otherwise those before the middle
\* timestamp come first, in order, then the others, in order.
RECURSIVE Ascending(_, _)
Ascending(msgs, ids) ==
  LET times == {msgs[m].timestamp : m \in ids}
  IN  IF Cardinality(times) <= 1
      THEN {[i \in 1..Cardinality(ids) |-> msgs[f[i]]] : f \in Orderings(ids)}
      ELSE LET mid == CHOOSE t \in times :
                        Cardinality({u \in times : u < t}) = Cardinality(times) \div 2
           IN  {early \o late :
                  early \in Ascending(msgs, {m \in ids : msgs[m].timestamp < mid}),
                  late \in Ascending(msgs, {m \in ids : msgs[m].timestamp >= mid})}

\* The results the query of subscribeToMessages may have: the messages of the
\* chat, orderBy('timestamp', 'asc'), limit(100).
MessagesSubscriptionQuery(msgs, chatId) ==
  {Limit(docs, SubscriptionLimit) : docs \in Ascending(msgs, MessagesOfChat(msgs, chatId))}

\* ------------------------------------------------------------ listeners
\* The results the query of a listener may have on the collections rs, ms.
QueryResults(sub, rs, ms) ==
  IF sub.kind = "messages"
  THEN MessagesSubscriptionQuery(ms, sub.key)
  ELSE UserChatsQuery(rs, sub.key)

\* A QuerySnapshot: docs is the whole result of the query in its order,
\* changes the documents of it that were added or modified since the
\* previous snapshot (docChanges()).
Snapshot(docs, before) ==
  [docs |-> docs, changes |-> SelectSeq(docs, LAMBDA d : d \notin before)]

\* The documents in the results of a query.
DocsOf(results) == UNION {Range(r) : r \in results}

\* A listener that hands its callback the changed documents only.
SnapshotData_Changes(snapshot) == snapshot.changes

\* snapshot.docs.map(doc => doc.data()): what the listener hands its callback.
SnapshotData(snapshot) == snapshot.docs

\* onSnapshot: an attached listener whose query result is changed by a write
\* from (rs, ms) to (rs2, ms2) gets one more snapshot, of the new result.
Raised(sub, rs, ms, rs2, ms2) ==
  IF ~sub.active \/ QueryResults(sub, rs2, ms2) = QueryResults(sub, rs, ms)
  THEN {sub}
  ELSE {[sub EXCEPT !.queue = Append(@, Snapshot(docs, DocsOf(QueryResults(sub, rs, ms))))] :
          docs \in QueryResults(sub, rs2, ms2)}

\* What the listeners may be after a write: every listener whose result
\* changed has one more snapshot.
SnapshotsAfterWrite ==
  {f \in [DOMAIN subscriptions ->
            UNION {Raised(subscriptions[i], rooms, messages, rooms', messages') :
                     i \in DOMAIN subscriptions}] :
     \A i \in DOMAIN subscriptions :
       f[i] \in Raised(subscriptions[i], rooms, messages, rooms', messages')}

\* The listeners after a write.
SnapshotsRaised == subscriptions' \in SnapshotsAfterWrite

\* ------------------------------------------------------------ chat rooms
\* The ChatRoom object createDirectChat builds (no name, no lastMessage).
NewDirectRoom(userId1, userId2, t) ==
  [id |-> DirectChatId(userId1, userId2), name |-> NoName, type |-> "direct",
   participants |-> <<userId1, userId2>>, createdBy |-> userId1,
   createdAt |-> t, lastMessage |-> NoLastMessage, lastActivity |-> t,
   isActive |-> TRUE]

\* getDirectChat: the stored room, or null when there is none or the read fails.
GetDirectChat(userId1, userId2, ok) ==
  LET chatId == DirectChatId(userId1, userId2)
  IN  IF ok /\ chatId \in DOMAIN rooms
      THEN [found |-> TRUE, id |-> rooms[chatId].id]
      ELSE [found |-> FALSE, id |-> NoId]

\* History: the call createDirectChat(userId1, userId2) returned the room id.
Returned(userId1, userId2, id) ==
  IF watch = "create"
  THEN returned \cup {[userId1 |-> userId1, userId2 |-> userId2, id |-> id]}
  ELSE returned

\* History: createDirectChat has returned the room id; recorded when
\* watch = "members".
ReturnedRoom(id, otherwise) ==
  IF watch = "members"
  THEN [NoReply EXCEPT !.op = "createDirectChat", !.chatId = id]
  ELSE otherwise

\* createDirectChat up to its setDoc: the lookup, and the room built when the
\* lookup returned null.
CreateDirectChatLookup(userId1, userId2) ==
  \E ok \in BOOLEAN :
    LET existingChat == GetDirectChat(userId1, userId2, ok)
    IN  /\ reply' = IF existingChat.found
                    THEN ReturnedRoom(existingChat.id, NoReply) ELSE NoReply
        /\ IF existingChat.found
           THEN /\ returned' = Returned(userId1, userId2, existingChat.id)
                /\ UNCHANGED pendingCreate
           ELSE /\ NumPending < MaxPending
                /\ pendingCreate' = pendingCreate \cup
                     {[userId1 |-> userId1, userId2 |-> userId2,
                       chatRoom |-> NewDirectRoom(userId1, userId2, now),
                       lookedUp |-> (ok \/ watch # "create")]}
                /\ UNCHANGED returned
        /\ UNCHANGED <<now, rooms, messages, nextMsg, pendingSend,
                       pendingMark, raced, watch, nextRoom, subscriptions, notifVars, modal>>

\* createDirectChat from its setDoc on: the room is written and returned, or
\* the failure of the write is thrown.
CreateDirectChatWrite(p) ==
  \E ok \in BOOLEAN :
    /\ pendingCreate' = pendingCreate \ {p}
    /\ reply' = IF ok THEN ReturnedRoom(p.chatRoom.id, Outcome(FALSE, FALSE))
                ELSE Outcome(TRUE, TRUE)
    /\ IF ok
       THEN /\ rooms' = Put(rooms, p.chatRoom.id, p.chatRoom)
            /\ returned' = Returned(p.userId1, p.userId2, p.chatRoom.id)
            /\ raced' = (raced \/ (watch = "create" /\ p.lookedUp
                                     /\ p.chatRoom.id \in DOMAIN rooms))
       ELSE UNCHANGED <<rooms, returned, raced>>
    /\ UNCHANGED <<now, messages, nextMsg, pendingSend, pendingMark, watch, nextRoom, notifVars, modal>>
    /\ SnapshotsRaised

\* A room update by updateDoc or batch.update applies only to a stored room.
UpdateApplies(chatId, ok) == ok /\ chatId \in DOMAIN rooms

\* A deleteChatRoom that deletes the document.
Deactivated_Removed(rs, chatId) == [c \in DOMAIN rs \ {chatId} |-> rs[c]]

\* batch.update(chatRef, { isActive: false })
Deactivated(rs, chatId) == [rs EXCEPT ![chatId].isActive = FALSE]

\* deleteChatRoom: the room is marked inactive, not deleted.
DeleteChatRoom(chatId) ==
  \E ok \in BOOLEAN :
    /\ rooms' = IF UpdateApplies(chatId, ok)
                THEN Deactivated(rooms, chatId)
                ELSE rooms
    /\ reply' = Outcome(~UpdateApplies(chatId, ok),
                        ~UpdateApplies(chatId, ok))
    /\ UNCHANGED <<now, messages, nextMsg, pendingCreate, pendingSend,
                   pendingMark, returned, raced, watch, nextRoom, notifVars, modal>>
    /\ SnapshotsRaised

\* -------------------------------------------------------------- messages
\* A message that nobody has read, not even its sender.
NewTextMessage_Unread(id, chatId, senderId, senderName, text, t) ==
  [id |-> id, chatId |-> chatId, senderId |-> senderId, senderName |-> senderName,
   text |-> text, type |-> "text", timestamp |-> t, memeData |-> NoMeme,
   readBy |-> <<>>]

\* The ChatMessage object sendMessage builds.
NewTextMessage(id, chatId, senderId, senderName, text, t) ==
  [id |-> id, chatId |-> chatId, senderId |-> senderId, senderName |-> senderName,
   text |-> text, type |-> "text", timestamp |-> t, memeData |-> NoMeme,
   readBy |-> <<senderId>>]

\* `Shared a meme: ${memeData.title}`
MemeText(title) == "Shared a meme: " \o title

\* The ChatMessage object sendMemeMessage builds.
NewMemeMessage(id, chatId, senderId, senderName, title, t) ==
  [id |-> id, chatId |-> chatId, senderId |-> senderId, senderName |-> senderName,
   text |-> MemeText(title), type |-> "meme", timestamp |-> t,
   memeData |-> [present |-> TRUE, title |-> title], readBy |-> <<senderId>>]

\* A room update that stamps the room with the time of the commit, not the message's.
TextSummary_Stamp(text, senderId, message) ==
  [lastMessage |-> [present |-> TRUE, text |-> text, senderId |-> senderId,
                    timestamp |-> message.timestamp, type |-> "text"],
   lastActivity |-> message.timestamp + 1]

\* The fields sendMessage writes to the room.
TextSummary(text, senderId, message) ==
  [lastMessage |-> [present |-> TRUE, text |-> text, senderId |-> senderId,
                    timestamp |-> message.timestamp, type |-> "text"],
   lastActivity |-> message.timestamp]

\* The fields sendMemeMessage writes to the room.
MemeSummary(title, senderId, message) ==
  [lastMessage |-> [present |-> TRUE, text |-> MemeText(title),
                    senderId |-> senderId, timestamp |-> message.timestamp,
                    type |-> "meme"],
   lastActivity |-> message.timestamp]

\* sendMessage up to batch.commit().
SendMessageStart(chatId, senderId, senderName, text) ==
  LET message == NewTextMessage(AutoId(nextMsg), chatId, senderId, senderName,
                                text, now)
  IN  /\ nextMsg <= MaxMsgs
      /\ NumPending < MaxPending
      /\ nextMsg' = nextMsg + 1
      /\ pendingSend' = pendingSend \cup
           {[message |-> message, update |-> TextSummary(text, senderId, message)]}
      /\ reply' = NoReply
      /\ UNCHANGED <<now, rooms, messages, pendingCreate, pendingMark,
                     returned, raced, watch, nextRoom, subscriptions, notifVars, modal>>

\* sendMemeMessage up to batch.commit().
SendMemeMessageStart(chatId, senderId, senderName, title) ==
  LET message == NewMemeMessage(AutoId(nextMsg), chatId, senderId, senderName,
                                title, now)
  IN  /\ nextMsg <= MaxMsgs
      /\ NumPending < MaxPending
      /\ nextMsg' = nextMsg + 1
      /\ pendingSend' = pendingSend \cup
           {[message |-> message, update |-> MemeSummary(title, senderId, message)]}
      /\ reply' = NoReply
      /\ UNCHANGED <<now, rooms, messages, pendingCreate, pendingMark,
                     returned, raced, watch, nextRoom, subscriptions, notifVars, modal>>

\* A batch whose set is applied whether or not its update can be.
BatchSetMessage_Always(msgs, message, applies) == Put(msgs, message.id, message)

\* batch.set(messageRef, message), applied when the batch commits.
BatchSetMessage(msgs, message, applies) ==
  IF applies THEN Put(msgs, message.id, message) ELSE msgs

\* batch.update(chatRef, {lastMessage, lastActivity}), applied when the batch commits.
BatchUpdateRoom(rs, chatId, update, applies) ==
  IF applies
  THEN [rs EXCEPT ![chatId].lastMessage = update.lastMessage,
                  ![chatId].lastActivity = update.lastActivity]
  ELSE rs

\* batch.commit() of sendMessage / sendMemeMessage: all of the batch or nothing;
\* the update of a room that is not stored fails the batch.
SendCommit(p) ==
  \E ok \in BOOLEAN :
    LET chatId == p.message.chatId
        applies == UpdateApplies(chatId, ok)
    IN  /\ pendingSend' = pendingSend \ {p}
        /\ messages' = BatchSetMessage(messages, p.message, applies)
        /\ rooms' = BatchUpdateRoom(rooms, chatId, p.update, applies)
        /\ reply' = Changed(IF p.message.type = "meme" THEN "sendMemeMessage"
                             ELSE "sendMessage",
                             chatId, p.message.senderId, ~applies, ~applies)
        /\ UNCHANGED <<now, nextMsg, pendingCreate, pendingMark,
                       returned, raced, watch, nextRoom, notifVars, modal>>
        /\ SnapshotsRaised

\* A Firestore not-in filter: the field's value equals none of the comparison
\* values (an array value is compared as a whole).
NotIn(value, comparisonValues) == value \notin comparisonValues

\* updateDoc(messageRef, {readBy: arrayUnion(userId)}) on the stored messages.
MarkMessageRead(msgs, messageId, userId) ==
  [msgs EXCEPT ![messageId].readBy = ArrayUnion(@, userId)]

\* markMessageAsRead: the failure of the update is logged, not thrown.
MarkMessageAsRead(messageId, userId) ==
  \E ok \in BOOLEAN :
    /\ messages' = IF ok /\ messageId \in DOMAIN messages
                   THEN MarkMessageRead(messages, messageId, userId)
                   ELSE messages
    /\ reply' = Outcome(~(ok /\ messageId \in DOMAIN messages), FALSE)
    /\ UNCHANGED <<now, rooms, nextMsg, pendingCreate, pendingSend,
                   pendingMark, returned, raced, watch, nextRoom, notifVars, modal>>
    /\ SnapshotsRaised

\* The query of markChatAsRead: chatId == chatId, readBy not-in [[userId]].
MarkChatQueryDocs(msgs, chatId, userId) ==
  {id \in MessagesOfChat(msgs, chatId) : NotIn(msgs[id].readBy, {<<userId>>})}

\* markChatAsRead up to batch.commit(); the failure of the query is logged, not
\* thrown, and ends the call.
MarkChatAsReadQuery(chatId, userId) ==
  \E ok \in BOOLEAN :
    /\ reply' = IF ok THEN NoReply ELSE Outcome(TRUE, FALSE)
    /\ IF ok
       THEN /\ NumPending < MaxPending
            /\ pendingMark' = pendingMark \cup
                 {[chatId |-> chatId, userId |-> userId,
                   docs |-> MarkChatQueryDocs(messages, chatId, userId)]}
       ELSE UNCHANGED pendingMark
    /\ UNCHANGED <<now, rooms, messages, nextMsg, pendingCreate,
                   pendingSend, returned, raced, watch, nextRoom, subscriptions, notifVars, modal>>

\* The batch of markChatAsRead: arrayUnion(userId) on every document of the query.
MarkDocsRead(msgs, docs, userId) ==
  [id \in DOMAIN msgs |->
     IF id \in docs THEN [msgs[id] EXCEPT !.readBy = ArrayUnion(@, userId)]
     ELSE msgs[id]]

\* batch.commit() of markChatAsRead: a failure is logged, not thrown.
MarkChatAsReadCommit(p) ==
  \E ok \in BOOLEAN :
    /\ pendingMark' = pendingMark \ {p}
    /\ messages' = IF ok THEN MarkDocsRead(messages, p.docs, p.userId) ELSE messages
    /\ reply' = Outcome(~ok, FALSE)
    /\ UNCHANGED <<now, rooms, nextMsg, pendingCreate, pendingSend,
                   returned, raced, watch, nextRoom, notifVars, modal>>
    /\ SnapshotsRaised

\* The rooms getUserChats selects: participants array-contains userId, isActive.
UserChatIds(userId) ==
  {c \in DOMAIN rooms : userId \in Range(rooms[c].participants) /\ rooms[c].isActive}

\* The per-chat query of getUnreadMessageCount:
\* chatId == chat.id, senderId != userId, readBy not-in [[userId]].
UnreadQueryDocs(chatId, userId) ==
  {id \in MessagesOfChat(messages, chatId) :
     /\ messages[id].senderId # userId
     /\ NotIn(messages[id].readBy, {<<userId>>})}

\* totalUnread += querySnapshot.size, over the chats.
RECURSIVE TotalUnread(_, _)
TotalUnread(chats, userId) ==
  IF chats = {} THEN 0
  ELSE LET c == CHOOSE x \in chats : TRUE
       IN  Cardinality(UnreadQueryDocs(c, userId)) + TotalUnread(chats \ {c}, userId)

\* getUnreadMessageCount, read from one snapshot of the store; a failing read
\* is logged and gives 0.
GetUnreadMessageCount(userId) ==
  \E ok \in BOOLEAN :
    /\ reply' = [NoReply EXCEPT
                   !.op = "getUnreadMessageCount", !.userId = userId, !.ok = ok,
                   !.num = Masked(ok, TotalUnread(UserChatIds(userId), userId), 0)]
    /\ UNCHANGED <<now, rooms, messages, nextMsg, pendingCreate,
                   pendingSend, pendingMark, returned, raced, watch, nextRoom, subscriptions, notifVars, modal>>

\* An arrayRemove that removes nothing.
ArrayRemove_None(arr, x) == arr

\* arrayRemove(x): removes every occurrence of x.
ArrayRemove(arr, x) == SelectSeq(arr, LAMBDA y : y # x)

GroupIds == {AutoId(n) : n \in 1..MaxRooms}
AllChatIds == DirectIds \cup GroupIds

\* The ChatRoom object createGroupChat builds: the creator first, then the
\* other participants as given.
NewGroupRoom(id, creatorId, participants, groupName, t) ==
  [id |-> id, name |-> [present |-> TRUE, value |-> groupName], type |-> "group",
   participants |-> <<creatorId>> \o SelectSeq(participants, LAMBDA p : p # creatorId),
   createdBy |-> creatorId, createdAt |-> t, lastMessage |-> NoLastMessage,
   lastActivity |-> t, isActive |-> TRUE]

\* createGroupChat: a room under a fresh id; a failing write is thrown.
CreateGroupChat(creatorId, participants, groupName) ==
  \E ok \in BOOLEAN :
    LET chatRoom == NewGroupRoom(AutoId(nextRoom), creatorId, participants,
                                 groupName, now)
    IN  /\ nextRoom <= MaxRooms
        /\ nextRoom' = nextRoom + 1
        /\ rooms' = IF ok THEN Put(rooms, chatRoom.id, chatRoom) ELSE rooms
        /\ reply' = Outcome(~ok, ~ok)
        /\ UNCHANGED <<now, messages, nextMsg, pendingCreate, pendingSend,
                       pendingMark, returned, raced, watch, notifVars, modal>>
        /\ SnapshotsRaised

\* addParticipant: updateDoc with arrayUnion; a failure (no such room
\* included) is thrown.
AddParticipant(chatId, userId) ==
  \E ok \in BOOLEAN :
    /\ rooms' = IF UpdateApplies(chatId, ok)
                THEN [rooms EXCEPT ![chatId].participants = ArrayUnion(@, userId)]
                ELSE rooms
    /\ reply' = Changed("addParticipant", chatId, userId,
                        ~UpdateApplies(chatId, ok), ~UpdateApplies(chatId, ok))
    /\ UNCHANGED <<now, messages, nextMsg, nextRoom, pendingCreate, pendingSend,
                   pendingMark, returned, raced, watch, notifVars, modal>>
    /\ SnapshotsRaised

\* removeParticipant: updateDoc with arrayRemove; a failure is thrown.
RemoveParticipant(chatId, userId) ==
  \E ok \in BOOLEAN :
    /\ rooms' = IF UpdateApplies(chatId, ok)
                THEN [rooms EXCEPT ![chatId].participants = ArrayRemove(@, userId)]
                ELSE rooms
    /\ reply' = Changed("removeParticipant", chatId, userId,
                        ~UpdateApplies(chatId, ok), ~UpdateApplies(chatId, ok))
    /\ UNCHANGED <<now, messages, nextMsg, nextRoom, pendingCreate, pendingSend,
                   pendingMark, returned, raced, watch, notifVars, modal>>
    /\ SnapshotsRaised

\* getUserChats: the documents of the query; a failing read is logged and
\* gives the empty list.
GetUserChats(userId) ==
  \E ok \in BOOLEAN, docs \in UserChatsQuery(rooms, userId) :
    /\ reply' = [NoReply EXCEPT !.op = "getUserChats", !.userId = userId,
                                !.ok = ok, !.list = Masked(ok, docs, <<>>)]
    /\ UNCHANGED <<now, rooms, messages, nextMsg, nextRoom, pendingCreate,
                   pendingSend, pendingMark, returned, raced, watch, subscriptions, notifVars, modal>>

\* The results the query of getChatMessages may have: the messages of the
\* chat, orderBy('timestamp', 'desc'), limit(limitCount).
ChatMessagesQuery(msgs, chatId, limitCount) ==
  LET ids == MessagesOfChat(msgs, chatId)
  IN  {Limit([i \in 1..Cardinality(ids) |-> msgs[f[i]]], limitCount) :
         f \in {g \in Orderings(ids) :
                  \A i \in 1..(Cardinality(ids) - 1) :
                    msgs[g[i]].timestamp >= msgs[g[i + 1]].timestamp}}

\* getChatMessages: the documents of the query, reversed; a failing read is
\* logged and gives the empty list.
GetChatMessages(chatId, limitCount) ==
  \E ok \in BOOLEAN, docs \in ChatMessagesQuery(messages, chatId, limitCount) :
    /\ reply' = [NoReply EXCEPT !.op = "getChatMessages", !.chatId = chatId,
                                !.num = limitCount,
                                !.ok = ok,
                                !.list = Masked(ok, Reverse(docs), <<>>)]
    /\ UNCHANGED <<now, rooms, messages, nextMsg, nextRoom, pendingCreate,
                   pendingSend, pendingMark, returned, raced, watch, subscriptions, notifVars, modal>>

\* Date.now() advances.
Tick ==
  /\ now < MaxTime
  /\ now' = now + 1
  /\ reply' = NoReply
  /\ UNCHANGED <<rooms, messages, nextMsg, pendingCreate,
                 pendingSend, pendingMark, returned, raced, watch, nextRoom, subscriptions, notifVars, modal>>

\* A listener as registered: attached, the first snapshot, of the result of
\* its query, is waiting; the callback has not been called. released is
\* history: the handle that onSnapshot returned has been called.
NewListener(kind, key, docs) ==
  [kind |-> kind, key |-> key, queue |-> <<Snapshot(docs, {})>>,
   called |-> FALSE, last |-> <<>>, active |-> TRUE, released |-> FALSE]

\* subscribeToMessages: onSnapshot on the messages of the chat, oldest first.
SubscribeToMessages(chatId) ==
  /\ Len(subscriptions) < MaxSubs
  /\ \E docs \in MessagesSubscriptionQuery(messages, chatId) :
       subscriptions' = Append(subscriptions, NewListener("messages", chatId, docs))
  /\ UNCHANGED <<now, rooms, messages, nextMsg, nextRoom, pendingCreate, pendingSend,
                 pendingMark, returned, raced, reply, watch, notifVars, modal>>

\* subscribeToUserChats: onSnapshot on the active rooms of the user, latest
\* activity first.
SubscribeToUserChats(userId) ==
  /\ Len(subscriptions) < MaxSubs
  /\ \E docs \in UserChatsQuery(rooms, userId) :
       subscriptions' = Append(subscriptions, NewListener("chats", userId, docs))
  /\ UNCHANGED <<now, rooms, messages, nextMsg, nextRoom, pendingCreate, pendingSend,
                 pendingMark, returned, raced, reply, watch, notifVars, modal>>

\* The listener of onSnapshot runs on the oldest waiting snapshot:
\* callback(snapshot.docs.map(doc => doc.data())).
OnSnapshot(i) ==
  /\ subscriptions[i].queue # <<>>
  /\ subscriptions' =
       [subscriptions EXCEPT ![i] =
          [@ EXCEPT !.queue = Tail(@), !.called = TRUE,
                    !.last = SnapshotData(Head(subscriptions[i].queue))]]
  /\ UNCHANGED <<now, rooms, messages, nextMsg, nextRoom, pendingCreate, pendingSend,
                 pendingMark, returned, raced, reply, watch, notifVars, modal>>

\* An unsubscribe that leaves the listener attached.
Detached_Not(sub) == sub

\* What the handle returned by onSnapshot does to its listener: it is
\* detached, and snapshots still waiting are not handed to the callback.
Detached(sub) == [sub EXCEPT !.active = FALSE, !.queue = <<>>]

\* The caller calls the Unsubscribe handle of listener i.
Unsubscribe(i) ==
  /\ ~subscriptions[i].released
  /\ subscriptions' =
       [subscriptions EXCEPT ![i] = [Detached(@) EXCEPT !.released = TRUE]]
  /\ UNCHANGED <<now, rooms, messages, nextMsg, nextRoom, pendingCreate, pendingSend,
                 pendingMark, returned, raced, reply, watch, notifVars, modal>>

\* No listener has MaxQueue snapshots waiting.
QueuesShort ==
  \A i \in DOMAIN subscriptions : Len(subscriptions[i].queue) < MaxQueue

\* -------------------------------------------------------------- ChatModal
\* The user of useAuth(), the users the modal offers, the names typed.
ModalUser == U1
GroupNames == {<<>>, <<32>>, <<116>>}

\* s.trim()
Trim(s) ==
  LET RECURSIVE TrimStart(_)
      TrimStart(t) == IF t # <<>> /\ Head(t) \in {9, 10, 13, 32}
                      THEN TrimStart(Tail(t)) ELSE t
  IN  Reverse(TrimStart(Reverse(TrimStart(s))))

\* handleUserSelect: in group mode the user is toggled in the selection,
\* otherwise the selection is that user.
HandleUserSelect(userId) ==
  /\ modal.step = "select"
  /\ modal' = [modal EXCEPT !.selectedUsers =
                 IF modal.isGroup
                 THEN IF userId \in Range(@)
                      THEN SelectSeq(@, LAMBDA id : id # userId)
                      ELSE Append(@, userId)
                 ELSE <<userId>>]
  /\ UNCHANGED <<now, rooms, messages, nextMsg, nextRoom, pendingCreate, pendingSend,
                 pendingMark, returned, raced, reply, watch, subscriptions, notifVars>>

\* The buttons Direct Message / Group Chat: setIsGroup(b).
SetIsGroup(b) ==
  /\ modal.step = "select"
  /\ modal' = [modal EXCEPT !.isGroup = b]
  /\ UNCHANGED <<now, rooms, messages, nextMsg, nextRoom, pendingCreate, pendingSend,
                 pendingMark, returned, raced, reply, watch, subscriptions, notifVars>>

\* The group name input, shown in group mode: setGroupName(e.target.value).
SetGroupName(name) ==
  /\ modal.step = "select" /\ modal.isGroup
  /\ modal' = [modal EXCEPT !.groupName = name]
  /\ UNCHANGED <<now, rooms, messages, nextMsg, nextRoom, pendingCreate, pendingSend,
                 pendingMark, returned, raced, reply, watch, subscriptions, notifVars>>

\* The parent renders the modal with or without memeData.
SetMemeData(b) ==
  /\ modal' = [modal EXCEPT !.memeData = b]
  /\ UNCHANGED <<now, rooms, messages, nextMsg, nextRoom, pendingCreate, pendingSend,
                 pendingMark, returned, raced, reply, watch, subscriptions, notifVars>>

\* An effect whose cleanup is never run.
CurrentChatEffect_NoCleanup(before, after, subs, ms) ==
  IF after.subscription = before.subscription \/ after.currentChat = NoId
  THEN {subs}
  ELSE {Append(subs, NewListener("messages", after.currentChat, docs)) :
          docs \in MessagesSubscriptionQuery(ms, after.currentChat)}

\* useEffect(..., [currentChat]) after the render that follows a handler
\* step: what the listeners subs may become on the messages ms. When
\* currentChat was set, the cleanup of the previous run calls the unsubscribe
\* it holds, and the effect subscribes to the messages of a chat that is not
\* null.
CurrentChatEffect(before, after, subs, ms) ==
  LET cleaned == IF before.subscription = 0 THEN subs
                 ELSE [subs EXCEPT ![before.subscription] =
                         [Detached(@) EXCEPT !.released = TRUE]]
  IN  IF after.subscription = before.subscription THEN {subs}
      ELSE IF after.currentChat = NoId THEN {cleaned}
      ELSE {Append(cleaned, NewListener("messages", after.currentChat, docs)) :
              docs \in MessagesSubscriptionQuery(ms, after.currentChat)}

\* handleClose: back to the selection with the useState defaults; the effect
\* on currentChat runs after it.
HandleClose ==
  /\ modal' = [modal EXCEPT !.step = "select", !.selectedUsers = <<>>,
                            !.groupName = <<>>, !.isGroup = FALSE,
                            !.currentChat = NoId, !.subscription = 0]
  /\ subscriptions' \in CurrentChatEffect(modal, modal', subscriptions, messages)
  /\ UNCHANGED <<now, rooms, messages, nextMsg, nextRoom, pendingCreate, pendingSend,
                 pendingMark, returned, raced, reply, watch, notifVars>>

\* A Start Chat button that is disabled only without a selection or while
\* loading.
StartEnabled_Unchecked ==
  ~(Len(modal.selectedUsers) = 0 \/ modal.loading)

\* The Start Chat button is shown in the selection step and is not disabled:
\* disabled = selectedUsers.length === 0 || loading || (isGroup && !groupName.trim())
StartEnabled ==
  ~(Len(modal.selectedUsers) = 0 \/ modal.loading
      \/ (modal.isGroup /\ Falsy(Trim(modal.groupName))))

\* handleStartChat up to its first await: the checks, setLoading(true), and
\* the call of createGroupChat (up to its setDoc) or of createDirectChat (up
\* to the getDoc of getDirectChat). The return on a blank group name passes
\* through finally { setLoading(false) }.
HandleStartChat ==
  /\ modal.step = "select" /\ modal.pc = "idle"
  /\ StartEnabled
  /\ LET closure == [currentChat |-> modal.currentChat, memeData |-> modal.memeData,
                     userId |-> IF modal.selectedUsers # <<>>
                                THEN modal.selectedUsers[1] ELSE NoId]
     IN  IF Len(modal.selectedUsers) = 0
         THEN UNCHANGED <<modal, nextRoom>>
         ELSE IF modal.isGroup /\ Len(modal.selectedUsers) > 1
         THEN IF Falsy(Trim(modal.groupName))
              THEN /\ modal' = [modal EXCEPT !.toast = "Please enter a group name",
                                             !.loading = FALSE, !.called = ""]
                   /\ UNCHANGED nextRoom
              ELSE /\ nextRoom <= MaxRooms
                   /\ nextRoom' = nextRoom + 1
                   /\ modal' = [modal EXCEPT
                        !.loading = TRUE, !.pc = "setDoc", !.closure = closure,
                        !.called = "createGroupChat",
                        !.pending = NewGroupRoom(AutoId(nextRoom), ModalUser,
                                                 modal.selectedUsers,
                                                 modal.groupName, now)]
         ELSE /\ modal' = [modal EXCEPT !.loading = TRUE, !.pc = "getDoc",
                                        !.closure = closure,
                                        !.called = "createDirectChat"]
              /\ UNCHANGED nextRoom
  /\ UNCHANGED <<now, rooms, messages, nextMsg, pendingCreate, pendingSend,
                 pendingMark, returned, raced, reply, watch, subscriptions, notifVars>>

\* handleStartChat from the return of its create call to its end:
\* setCurrentChat(chat), setStep('chat'), then sendMeme() when memeData is
\* given. sendMeme reads currentChat as handleStartChat captured it and
\* returns at once without it; otherwise it awaits getUserProfile. The room
\* returned is a new object: the effect on currentChat will run, and hold
\* the unsubscribe of the next listener registered.
Started(chatId) ==
  LET shown == [modal EXCEPT !.currentChat = chatId, !.step = "chat",
                             !.subscription = Len(subscriptions) + 1]
  IN  IF modal.closure.memeData /\ modal.closure.currentChat # NoId
      THEN [shown EXCEPT !.pc = "getUserProfile"]
      ELSE [shown EXCEPT !.pc = "idle", !.loading = FALSE]

\* The catch and finally of handleStartChat.
StartFailed ==
  [modal EXCEPT !.toast = "Failed to start chat", !.pc = "idle", !.loading = FALSE]

\* The running handleStartChat resumes from the await it is suspended at: the
\* getDoc of getDirectChat, the setDoc of the create call, the getUserProfile
\* and the batch.commit() of sendMeme; the effect on currentChat runs after
\* the render that follows.
StartChatResume ==
  \E ok \in BOOLEAN, userName \in Names, title \in Titles :
    LET pc == modal.pc
        existingChat == GetDirectChat(ModalUser, modal.closure.userId, ok)
        message == NewMemeMessage(AutoId(nextMsg), modal.closure.currentChat,
                                  ModalUser, userName, title, now)
        applies == pc = "commit" /\ UpdateApplies(modal.pending.message.chatId, ok)
    IN  /\ pc # "idle"
        /\ (pc = "getUserProfile" /\ ok) => nextMsg <= MaxMsgs
        /\ modal' =
             CASE pc = "getDoc" ->
                    IF existingChat.found THEN Started(existingChat.id)
                    ELSE [modal EXCEPT !.pc = "setDoc",
                            !.pending = NewDirectRoom(ModalUser, modal.closure.userId, now)]
               [] pc = "setDoc" ->
                    IF ok THEN Started(modal.pending.id) ELSE StartFailed
               [] pc = "getUserProfile" ->
                    IF ok
                    THEN [modal EXCEPT !.pc = "commit",
                            !.pending = [message |-> message,
                                         update |-> MemeSummary(title, ModalUser, message)]]
                    ELSE [modal EXCEPT !.toast = "Failed to share meme",
                                       !.pc = "idle", !.loading = FALSE]
               [] pc = "commit" ->
                    [modal EXCEPT !.toast = IF applies THEN "Meme shared!"
                                            ELSE "Failed to share meme",
                                  !.pc = "idle", !.loading = FALSE]
        /\ rooms' =
             CASE pc = "setDoc" /\ ok -> Put(rooms, modal.pending.id, modal.pending)
               [] pc = "commit" -> BatchUpdateRoom(rooms, modal.pending.message.chatId,
                                                   modal.pending.update, applies)
               [] OTHER -> rooms
        /\ messages' = IF pc = "commit"
                       THEN BatchSetMessage(messages, modal.pending.message, applies)
                       ELSE messages
        /\ nextMsg' = IF pc = "getUserProfile" /\ ok THEN nextMsg + 1 ELSE nextMsg
        /\ modal'.subscription # modal.subscription => Len(subscriptions) < MaxSubs
        /\ UNCHANGED <<now, nextRoom, pendingCreate, pendingSend, pendingMark,
                       returned, raced, reply, watch, notifVars>>
        /\ \E raised \in SnapshotsAfterWrite :
             subscriptions' \in CurrentChatEffect(modal, modal', raised, messages')

\* --------------------------------------------------------- notifications
\* A text of n code units.
Chars(n) == [i \in 1..n |-> 120]

\* Free texts given to the constructors: empty, short, longer than 100 units.
FreeTexts == {Chars(0), Chars(2), Chars(101)}

\* s.substring(start, end) for 0 <= start <= end.
Substring(s, start, end) ==
  SubSeq(s, start + 1, IF end < Len(s) THEN end ELSE Len(s))

\* A self check that never suppresses.
IsSelf_Never(fromUserId, userId) == FALSE

\* "Don't notify self": the acting user is the user to notify.
IsSelf(fromUserId, userId) == fromUserId = userId

\* The store and the counter of handed-out ids as a call that wrote nothing
\* and threw nothing leaves them.
NothingStored ==
  [threw |-> FALSE, failed |-> FALSE, notifications |-> notifications,
   nextNotif |-> nextNotif]

\* createNotification: the required fields are validated, a fresh id is taken,
\* createdAt and read get their defaults, the document is written; a missing
\* field and a failing write are thrown.
CreateNotificationResult(notification, ok) ==
  IF Falsy(notification.userId) \/ Falsy(notification.type)
       \/ Falsy(notification.message)
  THEN [threw |-> TRUE, failed |-> FALSE, notifications |-> notifications,
        nextNotif |-> nextNotif]
  ELSE LET id == AutoId(nextNotif)
           notificationData ==
             [([id |-> id] @@ notification) EXCEPT
                !.createdAt = IF @ # 0 THEN @ ELSE now,
                !.read = (@ \/ FALSE)]
       IN  [threw |-> ~ok, failed |-> ~ok,
            notifications |-> IF ok THEN Put(notifications, id, notificationData)
                              ELSE notifications,
            nextNotif |-> nextNotif + 1]

\* A catch block that throws what it caught.
Caught_Rethrown(r) == r

\* try { ... } catch (error) { console.error(...) }: what was thrown is
\* logged, and the call goes on to return normally.
Caught(r) == [r EXCEPT !.threw = FALSE]

\* History: the constructor op has returned or thrown as r says; stored are
\* the ids of the documents it added. The users of the call are recorded when
\* watch = "notif", its free texts when watch = "texts".
Notified(op, fromUserId, userId, texts, r) ==
  IF watch = "notif"
  THEN [op |-> op, fromUserId |-> fromUserId, userId |-> userId,
        stored |-> DOMAIN r.notifications \ DOMAIN notifications,
        removed |-> {}, threw |-> r.threw, failed |-> r.failed, texts |-> <<>>]
  ELSE IF watch = "texts"
  THEN [op |-> op, fromUserId |-> NoId, userId |-> NoId,
        stored |-> DOMAIN r.notifications \ DOMAIN notifications,
        removed |-> {}, threw |-> r.threw, failed |-> r.failed, texts |-> texts]
  ELSE notified

\* The notification createLikeNotification hands to createNotification.
LikeData(likedByUserId, memeAuthorId, memeId, memeTitle) ==
  [userId |-> memeAuthorId, fromUserId |-> likedByUserId, type |-> "like",
   targetId |-> memeId, message |-> "liked your meme", read |-> FALSE,
   createdAt |-> now,
   metadata |-> [memeTitle |-> Substring(memeTitle, 0, 100)]]

\* createLikeNotification: nothing for a like of one's own meme or for an
\* empty argument; a throw of createNotification is logged, not thrown.
CreateLikeNotification(likedByUserId, memeAuthorId, memeId, memeTitle) ==
  \E ok \in BOOLEAN :
    LET r == IF IsSelf(likedByUserId, memeAuthorId) THEN NothingStored
             ELSE IF Falsy(likedByUserId) \/ Falsy(memeAuthorId)
                       \/ Falsy(memeId) \/ Falsy(memeTitle)
             THEN NothingStored
             ELSE Caught(CreateNotificationResult(
                    LikeData(likedByUserId, memeAuthorId, memeId, memeTitle), ok))
    IN  /\ nextNotif <= MaxNotifs
        /\ notifications' = r.notifications
        /\ nextNotif' = r.nextNotif
        /\ notified' = Notified("createLikeNotification", likedByUserId,
                                memeAuthorId, <<memeTitle>>, r)
        /\ UNCHANGED <<chatVars, pendingBatch>>

\* The notification createCommentNotification hands to createNotification.
CommentData(commentByUserId, memeAuthorId, memeId, memeTitle, commentText) ==
  [userId |-> memeAuthorId, fromUserId |-> commentByUserId, type |-> "comment",
   targetId |-> memeId, message |-> "commented on your meme", read |-> FALSE,
   createdAt |-> now,
   metadata |-> [memeTitle |-> memeTitle,
                 commentText |-> Substring(commentText, 0, 100)]]

\* createCommentNotification: nothing for a comment on one's own meme; a throw
\* of createNotification is logged, not thrown.
CreateCommentNotification(commentByUserId, memeAuthorId, memeId, memeTitle, commentText) ==
  \E ok \in BOOLEAN :
    LET r == IF IsSelf(commentByUserId, memeAuthorId) THEN NothingStored
             ELSE Caught(CreateNotificationResult(
                    CommentData(commentByUserId, memeAuthorId, memeId,
                                memeTitle, commentText), ok))
    IN  /\ nextNotif <= MaxNotifs
        /\ notifications' = r.notifications
        /\ nextNotif' = r.nextNotif
        /\ notified' = Notified("createCommentNotification", commentByUserId,
                                memeAuthorId, <<memeTitle, commentText>>, r)
        /\ UNCHANGED <<chatVars, pendingBatch>>

\* The notification createReplyNotification hands to createNotification.
ReplyData(replyByUserId, originalCommentUserId, memeId, memeTitle, replyText) ==
  [userId |-> originalCommentUserId, fromUserId |-> replyByUserId,
   type |-> "reply", targetId |-> memeId, message |-> "replied to your comment",
   read |-> FALSE, createdAt |-> now,
   metadata |-> [memeTitle |-> memeTitle,
                 commentText |-> Substring(replyText, 0, 100)]]

\* createReplyNotification: nothing for a reply to one's own comment; a throw
\* of createNotification is logged, not thrown.
CreateReplyNotification(replyByUserId, originalCommentUserId, memeId, memeTitle, replyText) ==
  \E ok \in BOOLEAN :
    LET r == IF IsSelf(replyByUserId, originalCommentUserId) THEN NothingStored
             ELSE Caught(CreateNotificationResult(
                    ReplyData(replyByUserId, originalCommentUserId, memeId,
                              memeTitle, replyText), ok))
    IN  /\ nextNotif <= MaxNotifs
        /\ notifications' = r.notifications
        /\ nextNotif' = r.nextNotif
        /\ notified' = Notified("createReplyNotification", replyByUserId,
                                originalCommentUserId, <<memeTitle, replyText>>, r)
        /\ UNCHANGED <<chatVars, pendingBatch>>

\* `unlocked the "${achievementName}" achievement!`
AchievementMessage(achievementName) ==
  <<117, 110, 108, 111, 99, 107, 101, 100, 32, 116, 104, 101, 32, 34>>
    \o achievementName
    \o <<34, 32, 97, 99, 104, 105, 101, 118, 101, 109, 101, 110, 116, 33>>

\* The notification createAchievementNotification hands to createNotification.
AchievementData(userId, achievementName, achievementIcon) ==
  [userId |-> userId, fromUserId |-> userId, type |-> "achievement",
   message |-> AchievementMessage(achievementName), read |-> FALSE,
   createdAt |-> now,
   metadata |-> [achievementName |-> achievementName,
                 achievementIcon |-> achievementIcon]]

\* createAchievementNotification: a throw of createNotification is logged, not
\* thrown.
CreateAchievementNotification(userId, achievementName, achievementIcon) ==
  \E ok \in BOOLEAN :
    LET r == Caught(CreateNotificationResult(
               AchievementData(userId, achievementName, achievementIcon), ok))
    IN  /\ nextNotif <= MaxNotifs
        /\ notifications' = r.notifications
        /\ nextNotif' = r.nextNotif
        /\ notified' = Notified("createAchievementNotification", userId, userId,
                                <<achievementName>>, r)
        /\ UNCHANGED <<chatVars, pendingBatch>>

\* The notifications createNotification is called with from outside the
\* service; createdAt 0 stands for a createdAt that is not given.
NotificationInputs ==
  {[userId |-> u, fromUserId |-> U1, type |-> ty, message |-> m,
    read |-> rd, createdAt |-> c] :
     u \in {<<>>, U2}, ty \in {"", "follow"}, m \in {"", "started following you"},
     rd \in BOOLEAN, c \in {0, 1}}

\* createNotification called from outside the service.
CreateNotification(notification) ==
  \E ok \in BOOLEAN :
    LET r == CreateNotificationResult(notification, ok)
    IN  /\ nextNotif <= MaxNotifs
        /\ notifications' = r.notifications
        /\ nextNotif' = r.nextNotif
        /\ notified' = IF watch \in {"notif", "texts"}
                       THEN [NoCall EXCEPT !.op = "createNotification",
                                           !.userId = notification.userId,
                                           !.fromUserId = notification.fromUserId,
                                           !.stored = DOMAIN r.notifications
                                                        \ DOMAIN notifications,
                                           !.threw = r.threw,
                                           !.failed = r.failed]
                       ELSE notified
        /\ UNCHANGED <<chatVars, pendingBatch>>

\* 30 days on the model's clock, which counts seconds where Date.now() counts
\* milliseconds: (30 * 24 * 60 * 60 * 1000) is beyond the integers of TLC.
ThirtyDays == 30 * 24 * 60 * 60

\* Notifications given to createNotification with a createdAt of their own:
\* 30 days before the times of the model's clock, and one unit older.
OldNotificationInputs ==
  {[userId |-> U2, fromUserId |-> U1, type |-> "follow",
    message |-> "started following you", read |-> FALSE, createdAt |-> c] :
     c \in {t - ThirtyDays : t \in 0..MaxTime}}

\* History: the call op of the notification service has ended; removed are
\* the ids of the documents it deleted.
Ended(op, removed, failed, threw) ==
  IF watch = "notif"
  THEN [NoCall EXCEPT !.op = op, !.removed = removed, !.failed = failed,
                      !.threw = threw]
  ELSE notified

\* A query that takes the notifications of exactly 30 days too.
CleanupQueryDocs_Inclusive(thirtyDaysAgo) ==
  {id \in DOMAIN notifications : notifications[id].createdAt <= thirtyDaysAgo}

\* The query of cleanupOldNotifications: createdAt < thirtyDaysAgo.
CleanupQueryDocs(thirtyDaysAgo) ==
  {id \in DOMAIN notifications : notifications[id].createdAt < thirtyDaysAgo}

\* cleanupOldNotifications up to batch.commit(); a failure of the query is
\* logged, not thrown, and ends the call. calledAt and seen are history: the
\* time of the call and the documents stored when it queried.
CleanupQuery ==
  \E ok \in BOOLEAN :
    LET thirtyDaysAgo == now - ThirtyDays
    IN  /\ IF ok
           THEN /\ Cardinality(pendingBatch) < MaxPending
                /\ pendingBatch' = pendingBatch \cup
                     {[op |-> "cleanupOldNotifications",
                       docs |-> CleanupQueryDocs(thirtyDaysAgo),
                       calledAt |-> now, seen |-> DOMAIN notifications]}
                /\ UNCHANGED notified
           ELSE /\ notified' = Ended("cleanupOldNotifications", {}, TRUE, FALSE)
                /\ UNCHANGED pendingBatch
        /\ UNCHANGED <<chatVars, notifications, nextNotif>>

\* batch.delete(doc.ref) for every document of docs, applied when the batch
\* commits; deleting a document that is gone is no failure.
BatchDelete(docs) ==
  [id \in DOMAIN notifications \ docs |-> notifications[id]]

\* batch.commit() of cleanupOldNotifications: a failure is logged, not thrown.
CleanupCommit(p) ==
  \E ok \in BOOLEAN :
    /\ p.op = "cleanupOldNotifications"
    /\ pendingBatch' = pendingBatch \ {p}
    /\ notifications' = IF ok THEN BatchDelete(p.docs) ELSE notifications
    /\ notified' = Ended("cleanupOldNotifications",
                          IF ok THEN p.docs \cap DOMAIN notifications ELSE {},
                          ~ok, FALSE)
    /\ UNCHANGED <<chatVars, nextNotif>>

\* History: the call op(userId) of the notification service has ended;
\* stored are the ids of the documents it wrote, removed of those it deleted.
EndedFor(op, userId, stored, removed, failed, threw) ==
  IF watch = "notif"
  THEN [NoCall EXCEPT !.op = op, !.userId = userId, !.stored = stored,
                      !.removed = removed, !.failed = failed, !.threw = threw]
  ELSE notified

\* A query that takes the unread notifications of every user.
MarkAllQueryDocs_AnyUser(userId) ==
  {id \in DOMAIN notifications : notifications[id].read = FALSE}

\* The query of markAllAsRead: userId == userId, read == false.
MarkAllQueryDocs(userId) ==
  {id \in DOMAIN notifications :
     notifications[id].userId = userId /\ notifications[id].read = FALSE}

\* markAllAsRead up to batch.commit(); a failure of the query is thrown.
MarkAllAsReadQuery(userId) ==
  \E ok \in BOOLEAN :
    /\ IF ok
       THEN /\ Cardinality(pendingBatch) < MaxPending
            /\ pendingBatch' = pendingBatch \cup
                 {[op |-> "markAllAsRead", userId |-> userId,
                   docs |-> MarkAllQueryDocs(userId)]}
            /\ UNCHANGED notified
       ELSE /\ notified' = EndedFor("markAllAsRead", userId, {}, {}, TRUE, TRUE)
            /\ UNCHANGED pendingBatch
    /\ UNCHANGED <<chatVars, notifications, nextNotif>>

\* A batch of batch.update(doc.ref, ...) commits when the store accepts it and
\* every document of it is still stored.
BatchUpdateApplies(docs, ok) == ok /\ docs \subseteq DOMAIN notifications

\* batch.update(doc.ref, { read: true }) for every document of docs.
BatchMarkRead(docs) ==
  [id \in DOMAIN notifications |->
     IF id \in docs THEN [notifications[id] EXCEPT !.read = TRUE]
     ELSE notifications[id]]

\* batch.commit() of markAllAsRead: all updates or none; a failure is thrown.
MarkAllAsReadCommit(p) ==
  \E ok \in BOOLEAN :
    /\ p.op = "markAllAsRead"
    /\ pendingBatch' = pendingBatch \ {p}
    /\ notifications' = IF BatchUpdateApplies(p.docs, ok)
                        THEN BatchMarkRead(p.docs) ELSE notifications
    /\ notified' = EndedFor("markAllAsRead", p.userId,
                            IF BatchUpdateApplies(p.docs, ok) THEN p.docs ELSE {}, {},
                            ~BatchUpdateApplies(p.docs, ok),
                            ~BatchUpdateApplies(p.docs, ok))
    /\ UNCHANGED <<chatVars, nextNotif>>

\* A query that takes the unread notifications of the user only.
DeleteAllQueryDocs_Unread(userId) ==
  {id \in DOMAIN notifications :
     notifications[id].userId = userId /\ notifications[id].read = FALSE}

\* The query of deleteAllNotifications: userId == userId.
DeleteAllQueryDocs(userId) ==
  {id \in DOMAIN notifications : notifications[id].userId = userId}

\* deleteAllNotifications up to batch.commit(); a failure of the query is
\* thrown.
DeleteAllQuery(userId) ==
  \E ok \in BOOLEAN :
    /\ IF ok
       THEN /\ Cardinality(pendingBatch) < MaxPending
            /\ pendingBatch' = pendingBatch \cup
                 {[op |-> "deleteAllNotifications", userId |-> userId,
                   docs |-> DeleteAllQueryDocs(userId)]}
            /\ UNCHANGED notified
       ELSE /\ notified' = EndedFor("deleteAllNotifications", userId, {}, {}, TRUE, TRUE)
            /\ UNCHANGED pendingBatch
    /\ UNCHANGED <<chatVars, notifications, nextNotif>>

\* batch.commit() of deleteAllNotifications: all deletes or none; a failure
\* is thrown.
DeleteAllCommit(p) ==
  \E ok \in BOOLEAN :
    /\ p.op = "deleteAllNotifications"
    /\ pendingBatch' = pendingBatch \ {p}
    /\ notifications' = IF ok THEN BatchDelete(p.docs) ELSE notifications
    /\ notified' = EndedFor("deleteAllNotifications", p.userId, {},
                            IF ok THEN p.docs \cap DOMAIN notifications ELSE {},
                            ~ok, ~ok)
    /\ UNCHANGED <<chatVars, nextNotif>>

\* The results the query of getUserNotifications may have: the notifications
\* of the user, orderBy('createdAt', 'desc'), limit(limitCount).
UserNotificationsQuery(userId, limitCount) ==
  LET ids == {id \in DOMAIN notifications : notifications[id].userId = userId}
  IN  {Limit([i \in 1..Cardinality(ids) |-> notifications[f[i]]], limitCount) :
         f \in {g \in Orderings(ids) :
                  \A i \in 1..(Cardinality(ids) - 1) :
                    notifications[g[i]].createdAt >= notifications[g[i + 1]].createdAt}}

\* getUserNotifications: the documents of the query; a failing read is
\* logged and gives the empty list.
GetUserNotifications(userId, limitCount) ==
  \E ok \in BOOLEAN, docs \in UserNotificationsQuery(userId, limitCount) :
    /\ reply' = [NoReply EXCEPT !.op = "getUserNotifications",
                                !.userId = userId, !.num = limitCount, !.ok = ok,
                                !.list = Masked(ok, docs, <<>>)]
    /\ UNCHANGED <<now, rooms, messages, nextMsg, nextRoom, pendingCreate,
                   pendingSend, pendingMark, returned, raced, watch, subscriptions, notifVars, modal>>

\* The query of getUnreadCount: userId == userId, read == false.
UnreadNotifications(userId) ==
  {id \in DOMAIN notifications :
     notifications[id].userId = userId /\ notifications[id].read = FALSE}

\* getUnreadCount: the size of the query; a failing read is logged and gives 0.
GetUnreadCount(userId) ==
  \E ok \in BOOLEAN :
    /\ reply' = [NoReply EXCEPT !.op = "getUnreadCount", !.userId = userId,
                                !.ok = ok,
                                !.num = Masked(ok, Cardinality(UnreadNotifications(userId)), 0)]
    /\ UNCHANGED <<now, rooms, messages, nextMsg, nextRoom, pendingCreate,
                   pendingSend, pendingMark, returned, raced, watch, subscriptions, notifVars, modal>>

\* The calls of the notification service that create notifications.
NextNotif ==
  \/ Tick
  \/ \E n \in NotificationInputs : CreateNotification(n)
  \/ \E a \in NotifUsers, u \in NotifUsers, m \in MemeIds, t \in FreeTexts :
       CreateLikeNotification(a, u, m, t)
  \/ \E a \in NotifUsers, u \in NotifUsers, t \in FreeTexts, x \in FreeTexts :
       CreateCommentNotification(a, u, "m1", t, x)
  \/ \E a \in NotifUsers, u \in NotifUsers, t \in FreeTexts, x \in FreeTexts :
       CreateReplyNotification(a, u, "m1", t, x)
  \/ \E u \in NotifUsers, n \in FreeTexts, i \in Icons :
       CreateAchievementNotification(u, n, i)
\* createNotification called from outside, with notifications that lack
\* required fields among them, and from a constructor.
NextCreation ==
  \/ Tick
  \/ \E n \in NotificationInputs : CreateNotification(n)
  \/ \E u \in NotifUsers, n \in FreeTexts, i \in Icons :
       CreateAchievementNotification(u, n, i)

\* Notifications of several ages, and the cleanup.
NextCleanup ==
  \/ Tick
  \/ \E n \in OldNotificationInputs : CreateNotification(n)
  \/ CleanupQuery
  \/ \E p \in pendingBatch : CleanupCommit(p)

\* Notifications of two users, marked read and deleted in batches.
NextBatches ==
  \/ \E u \in Users, i \in Icons : CreateAchievementNotification(u, Chars(2), i)
  \/ \E u \in Users : MarkAllAsReadQuery(u)
  \/ \E p \in pendingBatch : MarkAllAsReadCommit(p)
  \/ \E u \in Users : DeleteAllQuery(u)
  \/ \E p \in pendingBatch : DeleteAllCommit(p)

\* The calls that write to the store.
Next ==
  \/ Tick
  \/ \E p \in DirectInputs : CreateDirectChatLookup(p[1], p[2])
  \/ \E p \in pendingCreate : CreateDirectChatWrite(p)
  \/ \E c \in ChatIds : DeleteChatRoom(c)
  \/ \E c \in ChatIds, u \in Users, n \in Names, t \in Texts : SendMessageStart(c, u, n, t)
  \/ \E c \in ChatIds, u \in Users, n \in Names, t \in Titles : SendMemeMessageStart(c, u, n, t)
  \/ \E p \in pendingSend : SendCommit(p)
  \/ \E m \in MessageIds, u \in Users : MarkMessageAsRead(m, u)
  \/ \E c \in ChatIds, u \in Users : MarkChatAsReadQuery(c, u)
  \/ \E p \in pendingMark : MarkChatAsReadCommit(p)

\* Every writing call of the chat service: the direct chat of U1 and U2 with
\* its messages, and a group whose participants change.
NextErrors ==
  \/ Tick
  \/ CreateDirectChatLookup(U1, U2)
  \/ \E p \in pendingCreate : CreateDirectChatWrite(p)
  \/ CreateGroupChat(U1, <<U2>>, "team")
  \/ \E c \in GroupIds : AddParticipant(c, U2)
  \/ \E c \in GroupIds : RemoveParticipant(c, U2)
  \/ \E c \in AllChatIds : DeleteChatRoom(c)
  \/ \E c \in DirectIds, n \in Names, t \in Texts : SendMessageStart(c, U1, n, t)
  \/ \E c \in DirectIds, n \in Names, t \in Titles : SendMemeMessageStart(c, U1, n, t)
  \/ \E p \in pendingSend : SendCommit(p)
  \/ \E m \in MessageIds : MarkMessageAsRead(m, U2)
  \/ \E c \in DirectIds : MarkChatAsReadQuery(c, U2)
  \/ \E p \in pendingMark : MarkChatAsReadCommit(p)

\* Rooms with messages, and their deactivation.
NextDelete ==
  \/ Tick
  \/ CreateDirectChatLookup(U1, U2)
  \/ \E p \in pendingCreate : CreateDirectChatWrite(p)
  \/ CreateGroupChat(U1, <<U2>>, "team")
  \/ \E c \in AllChatIds, n \in Names, t \in Texts : SendMessageStart(c, U1, n, t)
  \/ \E p \in pendingSend : SendCommit(p)
  \/ \E c \in AllChatIds : DeleteChatRoom(c)

\* The reading calls of both services, over a direct chat with messages and
\* the notifications of U1.
NextReadPaths ==
  \/ CreateDirectChatLookup(U1, U2)
  \/ \E p \in pendingCreate : CreateDirectChatWrite(p)
  \/ \E c \in DirectIds, n \in Names, t \in Texts : SendMessageStart(c, U1, n, t)
  \/ \E p \in pendingSend : SendCommit(p)
  \/ \E i \in Icons : CreateAchievementNotification(U1, Chars(2), i)
  \/ \E u \in Users : GetUserChats(u)
  \/ \E c \in DirectIds, n \in 1..MaxMsgs : GetChatMessages(c, n)
  \/ \E u \in Users : GetUnreadMessageCount(u)
  \/ \E u \in Users, n \in 1..MaxNotifs : GetUserNotifications(u, n)
  \/ \E u \in Users : GetUnreadCount(u)

\* Listeners on the messages of a group chat and on the rooms of U1, and the
\* writes they see.
NextSubs ==
  \/ QueuesShort /\ Tick
  \/ QueuesShort /\ CreateGroupChat(U2, <<U1, U2>>, "team")
  \/ \E c \in GroupIds, n \in Names, t \in Texts : SendMessageStart(c, U1, n, t)
  \/ \E p \in pendingSend : QueuesShort /\ SendCommit(p)
  \/ \E m \in MessageIds : QueuesShort /\ MarkMessageAsRead(m, U2)
  \/ \E c \in GroupIds : QueuesShort /\ DeleteChatRoom(c)
  \/ \E c \in GroupIds : SubscribeToMessages(c)
  \/ SubscribeToUserChats(U1)
  \/ \E i \in DOMAIN subscriptions : OnSnapshot(i)

\* Listeners that are released by their handles, and the writes that follow.
NextUnsub ==
  \/ QueuesShort /\ CreateGroupChat(U2, <<U1, U2>>, "team")
  \/ \E c \in GroupIds, n \in Names, t \in Texts : SendMessageStart(c, U1, n, t)
  \/ \E p \in pendingSend : QueuesShort /\ SendCommit(p)
  \/ \E c \in GroupIds : QueuesShort /\ DeleteChatRoom(c)
  \/ \E c \in GroupIds : SubscribeToMessages(c)
  \/ SubscribeToUserChats(U1)
  \/ \E i \in DOMAIN subscriptions : OnSnapshot(i)
  \/ \E i \in DOMAIN subscriptions : Unsubscribe(i)

\* The calls that write the participants of a room.
NextMembers ==
  \/ Tick
  \/ CreateDirectChatLookup(U1, U2)
  \/ \E p \in pendingCreate : CreateDirectChatWrite(p)
  \/ CreateGroupChat(U1, <<U2>>, "team")
  \/ \E c \in AllChatIds, u \in Users : AddParticipant(c, u)
  \/ \E c \in AllChatIds, u \in Users : RemoveParticipant(c, u)

\* ChatModal: what its user does in the selection step, and the handler of
\* its Start Chat button.
NextModal ==
  \/ Tick
  \/ \E u \in Users : HandleUserSelect(u)
  \/ \E b \in BOOLEAN : SetIsGroup(b)
  \/ \E name \in GroupNames : SetGroupName(name)
  \/ \E b \in BOOLEAN : SetMemeData(b)
  \/ HandleStartChat
  \/ StartChatResume
  \/ HandleClose

\* The state after n sendMessage calls of U2 to the direct room of U1 and U2
\* have ended, n being 0 or the limit of the subscription query: the room
\* was created at time -n, the messages were sent one per unit of time, the
\* last at time 0, and are stored under the ids "B00", "B01", ...
InitLoaded ==
  \E n \in {0, SubscriptionLimit} :
    LET room == [NewDirectRoom(U1, U2, 0 - n) EXCEPT
                   !.lastMessage = IF n = 0 THEN NoLastMessage
                                   ELSE TextSummary("hi", U2, [timestamp |-> 0]).lastMessage,
                   !.lastActivity = 0]
        ids == {<<66, 48 + (k \div 10), 48 + (k % 10)>> : k \in 0..(n - 1)}
    IN  /\ watch = "none"
        /\ now = 1
        /\ rooms = [c \in {room.id} |-> room]
        /\ messages = [id \in ids |->
                         NewTextMessage(id, room.id, U2, "nick", "hi",
                                        (id[2] - 48) * 10 + (id[3] - 48) + 1 - n)]
        /\ nextMsg = 1
        /\ nextRoom = 1
        /\ pendingCreate = {}
        /\ pendingSend = {}
        /\ pendingMark = {}
        /\ returned = {}
        /\ raced = FALSE
        /\ reply = NoReply
        /\ subscriptions = <<>>
        /\ modal = NoModal
        /\ notifications = <<>>
        /\ nextNotif = 1
        /\ notified = NoCall
        /\ pendingBatch = {}

\* A listener on the messages of a direct room that may be at the limit of
\* the query.
NextLoaded ==
  \/ QueuesShort /\ Tick
  \/ \E c \in DirectIds, u \in Users, t \in Texts : SendMessageStart(c, u, "nick", t)
  \/ \E p \in pendingSend : QueuesShort /\ SendCommit(p)
  \/ \E c \in DirectIds : SubscribeToMessages(c)
  \/ \E i \in DOMAIN subscriptions : OnSnapshot(i)

\* Direct rooms of users whose ids hold the separator.
NextIds ==
  \/ Tick
  \/ \E p \in SeparatorInputs : CreateDirectChatLookup(p[1], p[2])
  \/ \E p \in pendingCreate : CreateDirectChatWrite(p)

\* Direct rooms that are deactivated, asked for again and sent to, stored or
\* not.
NextReopen ==
  \/ Tick
  \/ \E p \in DirectInputs : CreateDirectChatLookup(p[1], p[2])
  \/ \E p \in pendingCreate : CreateDirectChatWrite(p)
  \/ \E c \in DirectIds : DeleteChatRoom(c)
  \/ \E c \in DirectIds, t \in Texts : SendMessageStart(c, U1, "nick", t)
  \/ \E c \in DirectIds, t \in Titles : SendMemeMessageStart(c, U2, "nick", t)
  \/ \E p \in pendingSend : SendCommit(p)

\* Rooms and messages, and the calls that list them.
NextLists ==
  \/ Tick
  \/ CreateDirectChatLookup(U1, U2)
  \/ \E p \in pendingCreate : CreateDirectChatWrite(p)
  \/ CreateGroupChat(U2, <<U1, U2>>, "team")
  \/ \E c \in GroupIds : RemoveParticipant(c, U2)
  \/ \E c \in AllChatIds : DeleteChatRoom(c)
  \/ \E c \in AllChatIds, n \in Names, t \in Texts : SendMessageStart(c, U1, n, t)
  \/ \E p \in pendingSend : SendCommit(p)
  \/ \E u \in Users : GetUserChats(u)
  \/ \E c \in AllChatIds, n \in 1..(MaxMsgs + 1) : GetChatMessages(c, n)

\* The calls that write to the collection of rooms (marking messages read
\* writes to the messages alone).
NextRooms ==
  \/ Tick
  \/ \E p \in DirectInputs : CreateDirectChatLookup(p[1], p[2])
  \/ \E p \in pendingCreate : CreateDirectChatWrite(p)
  \/ \E c \in ChatIds : DeleteChatRoom(c)
  \/ \E c \in ChatIds, u \in Users, n \in Names, t \in Texts : SendMessageStart(c, u, n, t)
  \/ \E c \in ChatIds, u \in Users, n \in Names, t \in Titles : SendMemeMessageStart(c, u, n, t)
  \/ \E p \in pendingSend : SendCommit(p)

\* The writes of rooms and text messages together with the read of the
\* unread count; a read changes reply alone.
NextReads ==
  \/ Tick
  \/ \E p \in DirectInputs : CreateDirectChatLookup(p[1], p[2])
  \/ \E p \in pendingCreate : CreateDirectChatWrite(p)
  \/ \E c \in ChatIds : DeleteChatRoom(c)
  \/ \E c \in ChatIds, u \in Users, n \in Names, t \in Texts : SendMessageStart(c, u, n, t)
  \/ \E p \in pendingSend : SendCommit(p)
  \/ \E m \in MessageIds, u \in Users : MarkMessageAsRead(m, u)
  \/ \E c \in ChatIds, u \in Users : MarkChatAsReadQuery(c, u)
  \/ \E p \in pendingMark : MarkChatAsReadCommit(p)
  \/ \E u \in Users : GetUnreadMessageCount(u)

\* The calls of the example: a direct chat, text messages, markChatAsRead and
\* the unread count.
NextExample ==
  \/ Tick
  \/ \E p \in DirectInputs : CreateDirectChatLookup(p[1], p[2])
  \/ \E p \in pendingCreate : CreateDirectChatWrite(p)
  \/ \E c \in ChatIds, u \in Users, n \in Names, t \in Texts : SendMessageStart(c, u, n, t)
  \/ \E p \in pendingSend : SendCommit(p)
  \/ \E c \in ChatIds, u \in Users : MarkChatAsReadQuery(c, u)
  \/ \E p \in pendingMark : MarkChatAsReadCommit(p)
  \/ \E u \in Users : GetUnreadMessageCount(u)

Spec == Init /\ [][Next]_vars
SpecCreate == InitCreate /\ [][NextRooms]_vars
SpecReads == InitReads /\ [][NextReads]_vars
SpecExample == InitReads /\ [][NextExample]_vars
SpecErrors == InitErrors /\ [][NextErrors]_vars
SpecDelete == InitErrors /\ [][NextDelete]_vars
SpecLists == InitReads /\ [][NextLists]_vars
SpecReadPaths == InitReads /\ [][NextReadPaths]_vars
SpecSubs == Init /\ [][NextSubs]_vars
SpecUnsub == Init /\ [][NextUnsub]_vars
SpecModal == Init /\ [][NextModal]_vars
SpecLoaded == InitLoaded /\ [][NextLoaded]_vars
SpecIds == InitCreate /\ [][NextIds]_vars
SpecReopen == InitMembers /\ [][NextReopen]_vars
SpecMembers == InitMembers /\ [][NextMembers]_vars
SpecNotif == InitNotif /\ [][NextNotif]_vars
SpecTexts == InitTexts /\ [][NextNotif]_vars
SpecBatches == InitNotif /\ [][NextBatches]_vars
SpecCleanup == InitNotif /\ [][NextCleanup]_vars
SpecCreation == InitNotif /\ [][NextCreation]_vars

\* ================================================================ claims

\* The stored direct rooms whose participants are the pair {a, b}.
PairRooms(a, b) ==
  {id \in DOMAIN rooms :
     rooms[id].type = "direct" /\ Range(rooms[id].participants) = {a, b}}

\* What createDirectChat has returned for the pair {a, b}, in either order.
ReturnedFor(a, b) == {r \in returned : {r.userId1, r.userId2} = {a, b}}

\* C1: once createDirectChat has returned for a pair, in whichever argument
\* order and however often, all the returned rooms have one id and the
\* collection holds exactly one room document of the pair, the one returned.
C1_OneRoomPerPair ==
  \A p \in DirectInputs :
    ReturnedFor(p[1], p[2]) # {} =>
      /\ Cardinality({r.id : r \in ReturnedFor(p[1], p[2])}) = 1
      /\ PairRooms(p[1], p[2]) = {r.id : r \in ReturnedFor(p[1], p[2])}

\* Calls in both argument orders have returned, none is in flight and no
\* write has raced.
C1_Witness ==
  /\ \E r1 \in returned, r2 \in returned :
        r1.userId1 = U1 /\ r1.userId2 = U2 /\ r2.userId1 = U2 /\ r2.userId2 = U1
  /\ pendingCreate = {}
  /\ ~raced

\* C2: while createDirectChat calls of one pair interleave (lookup, then
\* write), the collection never holds two room documents of the pair, and
\* the id a call in flight is about to return is the id every other call of
\* the pair has returned or is about to return.
C2_NoDuplicateUnderRace ==
  \A p \in DirectInputs :
    LET inFlight == {q \in pendingCreate : {q.userId1, q.userId2} = {p[1], p[2]}}
        ids == {r.id : r \in ReturnedFor(p[1], p[2])}
                 \cup {q.chatRoom.id : q \in inFlight}
    IN  /\ Cardinality(PairRooms(p[1], p[2])) <= 1
        /\ Cardinality(ids) <= 1
        /\ PairRooms(p[1], p[2]) \subseteq ids

\* Two calls in opposite argument orders both looked up before either wrote,
\* and both have written and returned.
C2_Witness ==
  /\ raced
  /\ \E r1 \in returned, r2 \in returned : r1.userId1 = U1 /\ r2.userId1 = U2
  /\ pendingCreate = {}

\* C3: the commit of sendMessage / sendMemeMessage is all or nothing: after
\* it either the message is stored and the room carries the update of the
\* same call, or neither collection has changed; a commit to a room that is
\* not stored changes nothing.
C3_SendAllOrNothing ==
  [][\A p \in pendingSend :
       SendCommit(p) =>
         LET id == p.message.id
             chatId == p.message.chatId
         IN  /\ IF id \in DOMAIN messages'
                THEN /\ messages'[id] = p.message
                     /\ chatId \in DOMAIN rooms'
                     /\ rooms'[chatId].lastMessage = p.update.lastMessage
                     /\ rooms'[chatId].lastActivity = p.update.lastActivity
                ELSE rooms' = rooms /\ messages' = messages
             /\ chatId \notin DOMAIN rooms =>
                  id \notin DOMAIN messages' /\ rooms' = rooms /\ messages' = messages
    ]_vars

\* One commit has failed and stored nothing, a later one has stored its
\* message.
C3_Witness ==
  /\ pendingSend = {}
  /\ nextMsg >= 3
  /\ AutoId(1) \notin DOMAIN messages
  /\ AutoId(2) \in DOMAIN messages

\* C4: right after a commit that stores a message, the room's lastMessage has
\* the text, senderId, timestamp and type of that message, and the room's
\* lastActivity is the message's timestamp.
C4_SummaryIsTheMessage ==
  [][\A p \in pendingSend :
       (SendCommit(p) /\ p.message.id \in DOMAIN messages') =>
         LET m == messages'[p.message.id]
             room == rooms'[m.chatId]
         IN  /\ room.lastMessage = [present |-> TRUE, text |-> m.text,
                                    senderId |-> m.senderId,
                                    timestamp |-> m.timestamp, type |-> m.type]
             /\ room.lastActivity = m.timestamp
    ]_vars

\* A meme message is stored and its room shows it as the last message.
C4_Witness ==
  \E id \in DOMAIN messages :
    /\ messages[id].type = "meme"
    /\ rooms[messages[id].chatId].lastMessage.type = "meme"
    /\ rooms[messages[id].chatId].lastActivity = messages[id].timestamp
    /\ pendingSend = {}

\* The number the unread count is specified to be: the messages of the active
\* chats of userId that another user sent and userId has not read.
UnreadOf(userId) ==
  Cardinality({id \in DOMAIN messages :
                 /\ messages[id].chatId \in DOMAIN rooms
                 /\ rooms[messages[id].chatId].isActive
                 /\ userId \in Range(rooms[messages[id].chatId].participants)
                 /\ messages[id].senderId # userId
                 /\ userId \notin Range(messages[id].readBy)})

\* C5: a getUnreadMessageCount(userId) whose reads succeed returns the number
\* of messages, over the active chats with userId among the participants,
\* that another user sent and whose readBy does not contain userId.
C5_UnreadCountExact ==
  (reply.op = "getUnreadMessageCount" /\ reply.ok) =>
    reply.num = UnreadOf(reply.userId)

\* C6: when U1 has sent the one message there is to the direct chat with U2,
\* getUnreadMessageCount(U2) returns 1 as long as U2 has not marked the chat
\* read, and 0 once markChatAsRead(chatId, U2) has put U2 into readBy.
C6_ExampleCounts ==
  LET id == AutoId(1)
      chatId == DirectChatId(U1, U2)
  IN  ( /\ reply.op = "getUnreadMessageCount" /\ reply.ok /\ reply.userId = U2
        /\ DOMAIN messages = {id} /\ nextMsg = 2
        /\ pendingSend = {} /\ pendingMark = {}
        /\ messages[id].senderId = U1 /\ messages[id].chatId = chatId
        /\ rooms[chatId].isActive ) =>
        /\ messages[id].readBy = <<U1>> => reply.num = 1
        /\ messages[id].readBy = <<U1, U2>> => reply.num = 0

\* C7: no step takes a member out of a stored message's readBy or removes the
\* message, and marking is idempotent: on every content the message
\* collection comes to have, markMessageAsRead(m, u) applied twice gives what
\* it gives applied once, and so does markChatAsRead(c, u) (query, then batch).
C7_ReadByGrowsMarkIdempotent ==
  [][/\ \A id \in DOMAIN messages :
          /\ id \in DOMAIN messages'
          /\ Range(messages[id].readBy) \subseteq Range(messages'[id].readBy)
     /\ messages' # messages =>
          /\ \A id \in DOMAIN messages', u \in Users :
               LET once == MarkMessageRead(messages', id, u)
               IN  MarkMessageRead(once, id, u) = once
          /\ \A c \in ChatIds, u \in Users :
               LET once == MarkDocsRead(messages', MarkChatQueryDocs(messages', c, u), u)
               IN  MarkDocsRead(once, MarkChatQueryDocs(once, c, u), u) = once
    ]_vars

\* Both read-marking calls have acted: every stored message has a second
\* reader, one of them by a markChatAsRead that has committed.
C7_Witness ==
  /\ Cardinality(DOMAIN messages) = 2
  /\ \A id \in DOMAIN messages : Len(messages[id].readBy) = 2
  /\ pendingMark = {}

\* C8: every stored message has its senderId in its readBy.
C8_SenderHasRead ==
  \A id \in DOMAIN messages : messages[id].senderId \in Range(messages[id].readBy)

\* A text and a meme message are stored, and one of them has been marked read
\* by the other user.
C8_Witness ==
  /\ \E id \in DOMAIN messages : messages[id].type = "text"
  /\ \E id \in DOMAIN messages :
       /\ messages[id].type = "meme"
       /\ \E u \in Users : u # messages[id].senderId /\ u \in Range(messages[id].readBy)

\* C9: when markChatAsRead(chatId, userId) completes and every message of the
\* chat was in its query (so none was sent in between), every message of the
\* chat has userId in readBy, and the messages of other chats are as before.
C9_MarkChatMarksAll ==
  [][\A p \in pendingMark :
       (MarkChatAsReadCommit(p) /\ MessagesOfChat(messages, p.chatId) = p.docs) =>
         /\ \A id \in MessagesOfChat(messages', p.chatId) :
              p.userId \in Range(messages'[id].readBy)
         /\ \A id \in DOMAIN messages :
              messages[id].chatId # p.chatId => messages'[id] = messages[id]
    ]_vars

\* C10: a createLikeNotification, createCommentNotification or
\* createReplyNotification whose acting user is the user to notify stores no
\* notification, and every notification a createAchievementNotification
\* stores is an achievement whose fromUserId is its userId, the user of the
\* call.
C10_SelfSuppressedAchievementSelf ==
  /\ ( /\ notified.op \in {"createLikeNotification", "createCommentNotification",
                           "createReplyNotification"}
       /\ notified.fromUserId = notified.userId ) =>
       notified.stored = {}
  /\ notified.op = "createAchievementNotification" =>
       \A id \in notified.stored :
         /\ notifications[id].type = "achievement"
         /\ notifications[id].userId = notified.userId
         /\ notifications[id].fromUserId = notifications[id].userId

\* U1 has just commented on a meme of their own and nothing was stored for
\* it, while the collection holds an achievement of U1 stored earlier.
C10_Witness ==
  /\ notified.op = "createCommentNotification"
  /\ notified.fromUserId = U1 /\ notified.userId = U1
  /\ notified.stored = {}
  /\ \E id \in DOMAIN notifications :
       /\ notifications[id].type = "achievement"
       /\ notifications[id].userId = U1
       /\ notifications[id].fromUserId = U1

\* C11: in every notification a constructor stores, each free text of the
\* metadata (memeTitle, commentText, achievementName) whose input is longer
\* than 100 units has length exactly 100, and each one of at most 100 units is
\* the input itself.
C11_MetadataCapped ==
  \A id \in notified.stored :
    LET md == notifications[id].metadata
        Capped(input, kept) ==
          IF Len(input) > 100 THEN Len(kept) = 100 ELSE kept = input
    IN  CASE notified.op = "createLikeNotification" ->
               Capped(notified.texts[1], md.memeTitle)
          [] notified.op \in {"createCommentNotification",
                              "createReplyNotification"} ->
               /\ Capped(notified.texts[1], md.memeTitle)
               /\ Capped(notified.texts[2], md.commentText)
          [] notified.op = "createAchievementNotification" ->
               Capped(notified.texts[1], md.achievementName)
          [] OTHER -> TRUE

\* C12: a cleanupOldNotifications whose commit the store applies deletes, of
\* the notifications stored when it queried, exactly those whose createdAt is
\* less than the time of the call minus 30 days (one that is exactly 30 days
\* old stays), and leaves every other notification as it was; a commit that
\* fails deletes nothing.
C12_CleanupStrictlyOlder ==
  [][\A p \in pendingBatch :
       CleanupCommit(p) =>
         LET old == {id \in p.seen \cap DOMAIN notifications :
                       notifications[id].createdAt < p.calledAt - ThirtyDays}
         IN  IF notified'.failed
             THEN notifications' = notifications
             ELSE /\ DOMAIN notifications' = DOMAIN notifications \ old
                  /\ \A id \in DOMAIN notifications' :
                       notifications'[id] = notifications[id]
    ]_vars

\* A cleanup called at time 2 has committed and deleted a notification,
\* while the notification exactly 30 days old at that time is still stored.
C12_Witness ==
  /\ notified.op = "cleanupOldNotifications" /\ ~notified.failed
  /\ notified.removed # {}
  /\ now = 2 /\ pendingBatch = {}
  /\ \E id \in DOMAIN notifications : notifications[id].createdAt = 2 - ThirtyDays

\* The constructors of notifications for events.
Constructors ==
  {"createLikeNotification", "createCommentNotification",
   "createReplyNotification", "createAchievementNotification"}

\* C13: a constructor of notifications never throws to its caller, whatever
\* its arguments are and whether or not createNotification inside it rejects
\* the notification or fails to write it.
C13_ConstructorsNeverThrow ==
  notified.op \in Constructors => ~notified.threw

\* The write of a like notification has failed in the store, and the
\* constructor has returned normally with nothing stored.
C13_Witness ==
  /\ notified.op = "createLikeNotification"
  /\ notified.failed
  /\ notified.stored = {}
  /\ ~notified.threw

\* C14: a createNotification whose notification has an empty userId, type or
\* message throws to its caller and writes nothing: the collection is as it
\* was, and no id was taken.
C14_MissingFieldRejected ==
  [][\A n \in NotificationInputs :
       ( /\ CreateNotification(n)
         /\ (n.userId = <<>> \/ n.type = "" \/ n.message = "") ) =>
         /\ notified'.threw
         /\ notifications' = notifications
         /\ nextNotif' = nextNotif
    ]_vars

\* A createNotification has thrown without a failure of the store, while a
\* notification written earlier is stored.
C14_Witness ==
  /\ notified.op = "createNotification"
  /\ notified.threw /\ ~notified.failed
  /\ notifications # <<>>

\* C15: right after a deleteChatRoom(chatId) that has not thrown, the room
\* document is stored with isActive false, no result of getUserChats(u) holds
\* the room for any user u that was a participant, and getChatMessages(chatId)
\* has the results it had before, whatever its count.
C15_DeactivatedRoomKeepsMessages ==
  [][\A c \in AllChatIds :
       (DeleteChatRoom(c) /\ ~reply'.threw) =>
         /\ c \in DOMAIN rooms' /\ ~rooms'[c].isActive
         /\ \A u \in Range(rooms[c].participants) :
              \A chats \in UserChatsQuery(rooms', u) :
                \A i \in 1..Len(chats) : chats[i].id # c
         /\ \A n \in 1..MaxMsgs :
              ChatMessagesQuery(messages', c, n) = ChatMessagesQuery(messages, c, n)
    ]_vars

\* The direct room of U1 and U2 is deactivated with both as participants,
\* and a message of it is stored.
C15_Witness ==
  LET c == DirectChatId(U1, U2)
  IN  /\ c \in DOMAIN rooms
      /\ ~rooms[c].isActive
      /\ Range(rooms[c].participants) = {U1, U2}
      /\ MessagesOfChat(messages, c) # {}

\* C18: every writing call that ends after a store call of it has failed
\* ends by throwing to its caller.
C18_WriteFailuresThrown ==
  (reply.op = "write" /\ ~reply.ok) => reply.threw

\* C16: a getUserChats(userId) whose read succeeds returns each room that is
\* active and has userId among its participants exactly once, as it is
\* stored, and no other room, with lastActivity descending along the list.
C16_UserChatsActiveDescending ==
  (reply.op = "getUserChats" /\ reply.ok) =>
    LET chats == reply.list
    IN  /\ {chats[i].id : i \in 1..Len(chats)} =
             {c \in DOMAIN rooms :
                rooms[c].isActive /\ reply.userId \in Range(rooms[c].participants)}
        /\ \A i, j \in 1..Len(chats) : i # j => chats[i].id # chats[j].id
        /\ \A i \in 1..Len(chats) : chats[i] = rooms[chats[i].id]
        /\ \A i \in 1..(Len(chats) - 1) :
             chats[i].lastActivity >= chats[i + 1].lastActivity

\* getUserChats has returned two rooms, the one of the later activity first,
\* while the store holds that room under the smaller id.
C16_Witness ==
  /\ reply.op = "getUserChats" /\ reply.ok
  /\ Len(reply.list) = 2
  /\ reply.list[1].lastActivity > reply.list[2].lastActivity
  /\ StrLess(reply.list[1].id, reply.list[2].id)

\* C17: a getChatMessages(chatId, count) whose read succeeds returns
\* min(count, number of messages of the chat) distinct messages of the chat
\* as they are stored, with timestamps ascending along the list, and no
\* message left out has a larger timestamp than one returned.
C17_NewestAscending ==
  (reply.op = "getChatMessages" /\ reply.ok) =>
    LET list == reply.list
        all == MessagesOfChat(messages, reply.chatId)
        got == {list[i].id : i \in 1..Len(list)}
    IN  /\ Len(list) = IF reply.num < Cardinality(all) THEN reply.num
                       ELSE Cardinality(all)
        /\ Cardinality(got) = Len(list)
        /\ got \subseteq all
        /\ \A i \in 1..Len(list) : list[i] = messages[list[i].id]
        /\ \A i \in 1..(Len(list) - 1) : list[i].timestamp <= list[i + 1].timestamp
        /\ \A id \in all \ got : \A i \in 1..Len(list) :
             messages[id].timestamp <= list[i].timestamp

\* getChatMessages with count 1 has returned the newer of two messages of
\* different times.
C17_Witness ==
  /\ reply.op = "getChatMessages" /\ reply.ok /\ reply.num = 1
  /\ Len(reply.list) = 1
  /\ \E id \in MessagesOfChat(messages, reply.chatId) :
       messages[id].timestamp < reply.list[1].timestamp

\* The reading calls of the two services.
ReadPaths ==
  {"getUserChats", "getChatMessages", "getUnreadMessageCount",
   "getUserNotifications", "getUnreadCount"}

\* C19: a reading call whose store read fails does not throw and returns the
\* empty list (getUserChats, getChatMessages, getUserNotifications) or zero
\* (getUnreadMessageCount, getUnreadCount), and no reading call changes a
\* stored room, message or notification.  A step that records a new reply
\* of a reading call is a step of that call.
C19_ReadFailuresMasked ==
  [][(reply' # reply /\ reply'.op \in ReadPaths) =>
       /\ rooms' = rooms /\ messages' = messages /\ notifications' = notifications
       /\ ~reply'.ok =>
            /\ ~reply'.threw
            /\ reply'.list = <<>>
            /\ reply'.op \in {"getUnreadMessageCount", "getUnreadCount"} =>
                 reply'.num = 0
    ]_vars

\* The read of getChatMessages has failed and the caller got the empty list,
\* while the chat has messages and U1 has a notification.
C19_Witness ==
  /\ reply.op = "getChatMessages" /\ ~reply.ok
  /\ reply.list = <<>>
  /\ MessagesOfChat(messages, reply.chatId) # {}
  /\ \E id \in DOMAIN notifications : notifications[id].userId = U1

\* C20: a listener registered by subscribeToMessages or subscribeToUserChats
\* has one snapshot waiting at registration and gets one more with every
\* write that changes the result of its query, each holding the complete
\* result of the query at that write in the query's order; every call of
\* its callback takes the oldest waiting snapshot and hands over that
\* complete result.
C20_ListenerGetsCompleteResult ==
  [][<<subscriptions, rooms, messages>>' # <<subscriptions, rooms, messages>> =>
     \A i \in DOMAIN subscriptions' :
       LET s2 == subscriptions'[i]
       IN  IF i \notin DOMAIN subscriptions
           THEN /\ Len(s2.queue) = 1 /\ ~s2.called
                /\ s2.queue[1].docs \in QueryResults(s2, rooms', messages')
           ELSE LET s == subscriptions[i]
                IN  IF QueryResults(s, rooms', messages') # QueryResults(s, rooms, messages)
                    THEN /\ Len(s2.queue) = Len(s.queue) + 1
                         /\ SubSeq(s2.queue, 1, Len(s.queue)) = s.queue
                         /\ s2.queue[Len(s2.queue)].docs \in QueryResults(s, rooms', messages')
                         /\ s2.last = s.last /\ s2.called = s.called
                    ELSE \/ s2 = s
                         \/ /\ s.queue # <<>>
                            /\ s2.queue = Tail(s.queue)
                            /\ s2.called
                            /\ s2.last = Head(s.queue).docs
    ]_vars

\* The callback of a listener on the messages of a chat has been called with
\* both messages of the chat, the older one first, after the second one was
\* sent, and the callback of a listener on the rooms of a user has been
\* called with the room as the last message left it.
C20_Witness ==
  \E i, j \in DOMAIN subscriptions :
    /\ subscriptions[i].kind = "messages" /\ subscriptions[i].called
    /\ subscriptions[i].queue = <<>>
    /\ Len(subscriptions[i].last) = 2
    /\ subscriptions[i].last[1].timestamp < subscriptions[i].last[2].timestamp
    /\ subscriptions[i].last \in QueryResults(subscriptions[i], rooms, messages)
    /\ subscriptions[j].kind = "chats" /\ subscriptions[j].called
    /\ subscriptions[j].queue = <<>>
    /\ Len(subscriptions[j].last) = 1
    /\ subscriptions[j].last[1].lastMessage.timestamp = subscriptions[i].last[2].timestamp

\* C21: once the handle of a listener has been called, no step changes the
\* listener: its callback is not called and no snapshot is put in wait for
\* it, whatever is written afterwards and however often it had been called.
\* Calling the handle changes no other listener, and a listener that is not
\* released still gets a snapshot with every write that changes its result.
C21_ReleasedListenerSilent ==
  [][subscriptions' # subscriptions \/ rooms' # rooms \/ messages' # messages =>
     \A i \in DOMAIN subscriptions :
       LET s == subscriptions[i]
           s2 == subscriptions'[i]
       IN  /\ s.released => s2 = s
           /\ (~s.released /\ s2.released) =>
                \A j \in DOMAIN subscriptions \ {i} : subscriptions'[j] = subscriptions[j]
           /\ (~s2.released /\ QueryResults(s, rooms', messages') # QueryResults(s, rooms, messages)) =>
                /\ Len(s2.queue) = Len(s.queue) + 1
                /\ s2.queue[Len(s2.queue)].docs \in QueryResults(s, rooms', messages')
    ]_vars

\* Two listeners on the messages of one chat: one was called and then
\* released, the other has since been called with a message sent after that.
C21_Witness ==
  \E i, j \in DOMAIN subscriptions :
    /\ subscriptions[i].kind = "messages" /\ subscriptions[j].kind = "messages"
    /\ subscriptions[i].key = subscriptions[j].key
    /\ subscriptions[i].released /\ subscriptions[i].called
    /\ ~subscriptions[j].released /\ subscriptions[j].called
    /\ Len(subscriptions[j].last) > Len(subscriptions[i].last)
    /\ subscriptions[j].last \in QueryResults(subscriptions[j], rooms, messages)

\* C22: the lastActivity of a stored room never decreases, whatever calls
\* run and however their steps interleave.
C22_LastActivityMonotone ==
  [][\A c \in DOMAIN rooms \cap DOMAIN rooms' :
       rooms'[c].lastActivity >= rooms[c].lastActivity]_vars

\* C23: every stored room has at least one participant, and the user who
\* created it is among its participants.
C23_CreatorStaysParticipant ==
  \A c \in DOMAIN rooms :
    /\ rooms[c].participants # <<>>
    /\ rooms[c].createdBy \in Range(rooms[c].participants)

\* How often x occurs in arr.
Occurrences(arr, x) == Cardinality({k \in DOMAIN arr : arr[k] = x})

NotificationsOf(ns, userId) == {id \in DOMAIN ns : ns[id].userId = userId}

\* C25: markAllAsRead(userId) takes the notifications of userId that are
\* unread when it queries; when its commit succeeds each of them is stored
\* with read = true and nothing else in the store differs; when its commit
\* fails the store is as before; the notifications of other users are never
\* among those it changes.
C25_MarkAllAtomic ==
  [][/\ \A p \in pendingBatch' \ pendingBatch :
          p.op = "markAllAsRead" =>
            /\ notifications' = notifications
            /\ p.docs = {id \in NotificationsOf(notifications, p.userId) :
                           ~notifications[id].read}
     /\ \A p \in pendingBatch \ pendingBatch' :
          p.op = "markAllAsRead" =>
            IF notified'.failed
            THEN notifications' = notifications /\ notified'.threw
            ELSE /\ DOMAIN notifications' = DOMAIN notifications
                 /\ p.docs \subseteq DOMAIN notifications
                 /\ \A id \in p.docs :
                      /\ notifications'[id] = [notifications[id] EXCEPT !.read = TRUE]
                      /\ notifications[id].userId = p.userId
                 /\ \A id \in DOMAIN notifications \ p.docs :
                      notifications'[id] = notifications[id]
    ]_vars

\* A markAllAsRead of one user has committed and marked a notification while
\* an unread notification of the other user is stored.
C25_Witness ==
  /\ notified.op = "markAllAsRead" /\ ~notified.failed
  /\ notified.stored # {}
  /\ \A id \in notified.stored : notifications[id].read
  /\ \E id \in DOMAIN notifications :
       notifications[id].userId # notified.userId /\ ~notifications[id].read

\* C26: deleteAllNotifications(userId) takes every notification of userId
\* stored when it queries; when its commit succeeds and no notification of
\* userId was created in between, none of userId is stored afterwards; the
\* notifications of other users are stored as before, and a failed commit
\* leaves the store as it was.
C26_DeleteAllLeavesOthers ==
  [][/\ \A p \in pendingBatch' \ pendingBatch :
          p.op = "deleteAllNotifications" =>
            /\ notifications' = notifications
            /\ p.docs = NotificationsOf(notifications, p.userId)
     /\ \A p \in pendingBatch \ pendingBatch' :
          p.op = "deleteAllNotifications" =>
            IF notified'.failed
            THEN notifications' = notifications /\ notified'.threw
            ELSE /\ NotificationsOf(notifications, p.userId) \subseteq p.docs =>
                      NotificationsOf(notifications', p.userId) = {}
                 /\ \A id \in DOMAIN notifications :
                      notifications[id].userId # p.userId =>
                        /\ id \in DOMAIN notifications'
                        /\ notifications'[id] = notifications[id]
                 /\ DOMAIN notifications' \subseteq DOMAIN notifications
    ]_vars

\* A deleteAllNotifications of one user has committed and deleted what it
\* found; no notification of that user is stored, one of the other user is.
C26_Witness ==
  /\ notified.op = "deleteAllNotifications" /\ ~notified.failed
  /\ notified.removed # {}
  /\ NotificationsOf(notifications, notified.userId) = {}
  /\ \E id \in DOMAIN notifications : notifications[id].userId # notified.userId

\* C27: no step removes a stored room or a stored message, and a stored
\* message differs after a step from what it was in readBy at most.
C27_NothingRemovedMessagesFixed ==
  [][(rooms' # rooms \/ messages' # messages) =>
       /\ DOMAIN rooms \subseteq DOMAIN rooms'
       /\ DOMAIN messages \subseteq DOMAIN messages'
       /\ \A m \in DOMAIN messages :
            messages'[m] = [messages[m] EXCEPT !.readBy = messages'[m].readBy]
    ]_vars

\* A room has been deactivated and is stored, with a message of it that a
\* second user has been marked as having read.
C27_Witness ==
  \E c \in DOMAIN rooms, m \in DOMAIN messages :
    /\ ~rooms[c].isActive
    /\ messages[m].chatId = c
    /\ Len(messages[m].readBy) = 2

\* C28: no group room started from ChatModal is stored with a blank name or
\* without a second participant, and while the modal is in group mode with a
\* blank group name and no handler is running, no step starts a create call
\* or writes a room, and loading is false afterwards.
C28_NoBlankGroupThroughModal ==
  [][/\ \A c \in DOMAIN rooms' :
          rooms'[c].type = "group" =>
            /\ ~Falsy(Trim(rooms'[c].name.value))
            /\ Len(rooms'[c].participants) >= 2
     /\ (modal.isGroup /\ Falsy(Trim(modal.groupName)) /\ modal.pc = "idle") =>
          /\ modal'.pc = "idle"
          /\ rooms' = rooms
          /\ ~modal'.loading
    ]_vars

\* A group room has been stored by handleStartChat, and the modal is again
\* in group mode with a user selected and a blank name typed.
C28_Witness ==
  /\ \E c \in DOMAIN rooms : rooms[c].type = "group"
  /\ modal.isGroup /\ modal.groupName = <<32>>
  /\ Len(modal.selectedUsers) = 1
  /\ modal.pc = "idle" /\ ~modal.loading

\* C29: the room a createDirectChat call has just returned is stored and
\* active.
C29_ReturnedRoomActive ==
  reply.op = "createDirectChat" =>
    /\ reply.chatId \in DOMAIN rooms
    /\ rooms[reply.chatId].isActive

\* C30: the setDoc of createDirectChat leaves a room that is stored under
\* its id as it was.
C30_CreateKeepsStoredRoom ==
  [][\A p \in pendingCreate \ pendingCreate' :
       p.chatRoom.id \in DOMAIN rooms => rooms'[p.chatRoom.id] = rooms[p.chatRoom.id]
    ]_vars

\* C31: calls that were returned the same room id were made for the same
\* unordered pair of users, and a stored room a call was returned holds
\* exactly the two users of the call.
C31_IdInjectiveOnPairs ==
  /\ \A r1 \in returned, r2 \in returned :
       r1.id = r2.id => {r1.userId1, r1.userId2} = {r2.userId1, r2.userId2}
  /\ \A r \in returned :
       r.id \in DOMAIN rooms =>
         Range(rooms[r.id].participants) = {r.userId1, r.userId2}

\* C32: after every step the chatId of every stored message is the id of a
\* stored room, and the step that ends a sendMessage or sendMemeMessage to a
\* chatId without a room document stores no message and throws.
C32_MessagesBelongToStoredRooms ==
  [][/\ \A m \in DOMAIN messages' : messages'[m].chatId \in DOMAIN rooms'
     /\ \A p \in pendingSend \ pendingSend' :
          p.message.chatId \notin DOMAIN rooms =>
            /\ messages' = messages
            /\ rooms' = rooms
            /\ reply'.threw
    ]_vars

\* A sendMemeMessage to a chatId without a room document has just ended and
\* thrown; every message id has been handed out and no call is in flight.
C32_Witness ==
  /\ reply.op = "sendMemeMessage" /\ reply.threw
  /\ reply.chatId \notin DOMAIN rooms
  /\ pendingSend = {}
  /\ nextMsg > MaxMsgs
  /\ messages = <<>>

\* C33: the step that stores a message of sendMessage raises, for every
\* attached listener of subscribeToMessages on the chat of the message, one
\* more snapshot, and the result set of that snapshot holds the message.
C33_CommittedMessageDelivered ==
  [][\A p \in pendingSend \ pendingSend' :
       p.message.id \in DOMAIN messages' \ DOMAIN messages =>
         \A i \in DOMAIN subscriptions :
           ( /\ subscriptions[i].kind = "messages"
             /\ subscriptions[i].key = p.message.chatId
             /\ subscriptions[i].active ) =>
               /\ Len(subscriptions'[i].queue) = Len(subscriptions[i].queue) + 1
               /\ p.message \in
                    Range(subscriptions'[i].queue[Len(subscriptions'[i].queue)].docs)
    ]_vars

\* C34: when the create call of a handleStartChat that was started with
\* memeData returns a chat, the handler does not end in that step: it goes
\* on to send the meme to the chat.
C34_MemeSentOnStart ==
  [][( /\ modal.pc \in {"getDoc", "setDoc"}
       /\ modal.closure.memeData
       /\ modal'.currentChat # NoId ) =>
         modal'.pc # "idle"
    ]_vars

\* The listeners that are attached.
LiveSubscriptions == {i \in DOMAIN subscriptions : subscriptions[i].active}

\* C35: of the listeners ChatModal has registered at most one is attached;
\* it is the one whose unsubscribe the effect holds, and it listens to the
\* messages of the chat in currentChat; without a current chat none is
\* attached, and every listener registered before the one held is released.
C35_OneLiveSubscription ==
  /\ Cardinality(LiveSubscriptions) <= 1
  /\ \A i \in LiveSubscriptions :
       /\ i = modal.subscription
       /\ modal.currentChat # NoId
       /\ subscriptions[i].kind = "messages"
       /\ subscriptions[i].key = modal.currentChat
  /\ modal.currentChat = NoId => LiveSubscriptions = {}
  /\ \A i \in DOMAIN subscriptions :
       i # modal.subscription => subscriptions[i].released

\* The modal was closed and a chat was started again: the listener of the
\* first chat is released, the listener of the current chat is attached.
C35_Witness ==
  /\ Len(subscriptions) = 2
  /\ subscriptions[1].released /\ ~subscriptions[1].active
  /\ subscriptions[2].active /\ subscriptions[2].key = modal.currentChat
  /\ modal.step = "chat"
====
